---- MODULE Spec2Model ----
(***************************************************************************)
(* makansplit: the PayNow QR payload encoders (paynow.py,                  *)
(* paynow_generator.py) and the CRC-16/CCITT checksum (utils.py).          *)
(*                                                                         *)
(* A Python str is a sequence of Unicode code points (naturals); a bytes   *)
(* value is a sequence of naturals in 0..255.  A Python float amount is    *)
(* drawn from the doubles n/8 (exactly representable) and is carried as    *)
(* the integer n.                                                          *)
(***************************************************************************)
EXTENDS Integers, Sequences, FiniteSets, TLC

VARIABLES
    config,     \* config.py: PAYNOW_RECIPIENT_PHONE / PAYNOW_RECIPIENT_NAME read from the environment
    obj,        \* the encoder object in use (a PayNowQR or a PayNowGenerator), or none
    request,    \* the arguments the caller supplied to the constructor and to the method
    last,       \* the last encoder call: its name and what it returned or raised
    data,       \* the str handed to the checksum functions
    crc_ret,    \* what the checksum functions returned for data
    history,    \* the encode calls that returned so far: <<arguments, payload>> pairs
    frame,      \* the locals of a checksum call in progress: its bytes, loop counters and register
    bill,       \* what analyze_bill returned (or that it raised): the bill with its items
    people,     \* the people_data handed to calculate_person_totals
    totals,     \* what calculate_person_totals returned (or that it raised)
    state,      \* the state of the ConversationHandler for the chat, "END" outside a conversation
    user_data,  \* context.user_data: the session dict of the conversation
    sent,       \* the generate_qr_code calls of the last send_payment_requests, in order
    paynow_storage,  \* the live PayNowStorage instance: its self.data
    file,       \* the content of user_paynow.json, absent before the first write
    pairings_file,  \* the content of user_pairings.json, absent before the first write
    posted,     \* what the last send_payment_requests posted: its send_photo calls, and whether "All done!"
    other_chat  \* the state of the ConversationHandler for the same user in a second chat

vars == <<config, obj, request, last, data, crc_ret, history, frame, bill, people, totals,
          state, user_data, sent, paynow_storage, file, pairings_file, posted, other_chat>>

\* the state outside paynow.py, paynow_generator.py and utils.py
beyondPayNow == <<bill, people, totals, state, user_data, sent, paynow_storage, file, pairings_file, posted,
                  other_chat>>

\* the conversation and the recipient-info store, which the bill functions never touch
beyondBill == <<state, user_data, sent, paynow_storage, file, pairings_file, posted, other_chat>>

\* the state the encoders and the checksum functions (taken as a whole) never touch
beyondEncoders == <<history, frame, beyondPayNow>>

(***************************************************************************)
(* Bounds of the model.                                                    *)
(***************************************************************************)
MaxDataLen == 3      \* checksum inputs: every str over Alphabet up to this length
LongNameLen == 100   \* the longest recipient name / reference tried
LongIdLen == 61      \* the longest recipient id tried (tag 26 then holds 100 characters)
LongPhoneLen == 73   \* the longest recipient phone tried (tag 26 of the generator then holds 100 characters)
MaxVaried == 2       \* PayNowQR requests differ from the concrete scenario in at most this many fields

(***************************************************************************)
(* str literals                                                            *)
(***************************************************************************)
S_SG_PAYNOW == <<83,71,46,80,65,89,78,79,87>>                    \* "SG.PAYNOW"
S_0009SG_PAYNOW == <<48,48,48,57,83,71,46,80,65,89,78,79,87>>    \* "0009SG.PAYNOW"
S_03010 == <<48,51,48,49,48>>                                    \* "03010"
S_000201 == <<48,48,48,50,48,49>>                                \* "000201"
S_010212 == <<48,49,48,50,49,50>>                                \* "010212"
S_52040000 == <<53,50,48,52,48,48,48,48>>                        \* "52040000"
S_5303702 == <<53,51,48,51,55,48,50>>                            \* "5303702"
S_5802SG == <<53,56,48,50,83,71>>                                \* "5802SG"
S_6009Singapore == <<54,48,48,57,83,105,110,103,97,112,111,114,101>>  \* "6009Singapore"
S_6304 == <<54,51,48,52>>                                        \* "6304"
S_20991230 == <<50,48,57,57,49,50,51,48>>                        \* "20991230"
S_UEN == <<85,69,78>>                                            \* "UEN"
S_MOBILE == <<77,79,66,73,76,69>>                                \* "MOBILE"
S_Singapore == <<83,105,110,103,97,112,111,114,101>>             \* "Singapore"
S_0000 == <<48,48,48,48>>                                        \* "0000"
S_702 == <<55,48,50>>                                            \* "702"
S_SG == <<83,71>>                                                \* "SG"
S_00 == <<48,48>>
S_01 == <<48,49>>
S_02 == <<48,50>>
S_03 == <<48,51>>
S_04 == <<48,52>>
S_12 == <<49,50>>
S_26 == <<50,54>>
S_52 == <<53,50>>
S_53 == <<53,51>>
S_54 == <<53,52>>
S_58 == <<53,56>>
S_59 == <<53,57>>
S_60 == <<54,48>>
S_62 == <<54,50>>
S_63 == <<54,51>>
S_0 == <<48>>
S_1 == <<49>>
S_2 == <<50>>

(***************************************************************************)
(* Python integer operators on non-negative ints of any width              *)
(***************************************************************************)
\* a ^ b and a & b on 4-bit operands, bit by bit
XorNibble[a \in 0..15, b \in 0..15] ==
    IF a = 0 THEN b
    ELSE IF b = 0 THEN a
    ELSE (((a % 2) + (b % 2)) % 2) + 2 * XorNibble[a \div 2, b \div 2]

AndNibble[a \in 0..15, b \in 0..15] ==
    IF a = 0 \/ b = 0 THEN 0
    ELSE (a % 2) * (b % 2) + 2 * AndNibble[a \div 2, b \div 2]

\* a ^ b, four bits at a time
Xor[a \in Nat, b \in Nat] ==
    IF a = 0 THEN b
    ELSE IF b = 0 THEN a
    ELSE XorNibble[a % 16, b % 16] + 16 * Xor[a \div 16, b \div 16]

\* a & b, four bits at a time
And[a \in Nat, b \in Nat] ==
    IF a = 0 \/ b = 0 THEN 0
    ELSE AndNibble[a % 16, b % 16] + 16 * And[a \div 16, b \div 16]

\* a << n
Shl[a \in Nat, n \in Nat] == a * (2 ^ n)

(***************************************************************************)
(* str.encode("utf-8")                                                     *)
(***************************************************************************)
Utf8Char(c) ==
    IF c < 128 THEN <<c>>
    ELSE IF c < 2048 THEN <<192 + (c \div 64), 128 + (c % 64)>>
    ELSE IF c < 65536 THEN
        <<224 + (c \div 4096), 128 + ((c \div 64) % 64), 128 + (c % 64)>>
    ELSE <<240 + (c \div 262144), 128 + ((c \div 4096) % 64),
           128 + ((c \div 64) % 64), 128 + (c % 64)>>

\* the bytes of the characters s[i..j], in order (split in halves)
Utf8Range[s \in Seq(Nat), i \in Nat, j \in Nat] ==
    IF i > j THEN <<>>
    ELSE IF i = j THEN Utf8Char(s[i])
    ELSE Utf8Range[s, i, (i + j) \div 2] \o Utf8Range[s, ((i + j) \div 2) + 1, j]

\* faulty variant: encode("ascii", "ignore"), which drops every non-ASCII character
encode_utf8_AsciiIgnore(s) == SelectSeq(s, LAMBDA c : c < 128)

encode_utf8(s) == Utf8Range[s, 1, Len(s)]

(***************************************************************************)
(* Python number formatting                                                *)
(***************************************************************************)
HexDigit(d) == IF d < 10 THEN 48 + d ELSE 55 + d     \* "0".."9", "A".."F"

RECURSIVE HexStr(_)
\* format(n, "X") for n >= 0
HexStr(n) == IF n < 16 THEN <<HexDigit(n)>> ELSE HexStr(n \div 16) \o <<HexDigit(n % 16)>>

RECURSIVE DecStr(_)
\* str(n) for n >= 0
DecStr(n) == IF n < 10 THEN <<48 + n>> ELSE DecStr(n \div 10) \o <<48 + (n % 10)>>

RECURSIVE ZeroFill(_, _)
\* pad with "0" on the left up to width w; never truncates
ZeroFill(s, w) == IF Len(s) >= w THEN s ELSE ZeroFill(<<48>> \o s, w)

\* f"{crc:04X}"
FormatHex04(n) == ZeroFill(HexStr(n), 4)

\* f"{n:02}" for an int n >= 0
FormatInt02(n) == ZeroFill(DecStr(n), 2)

\* str(n).zfill(2) for an int n >= 0
StrZfill2(n) == ZeroFill(DecStr(n), 2)

\* "{:08d}".format(n) for an int n >= 0
Format08d(n) == ZeroFill(DecStr(n), 8)

RECURSIVE IntOf(_)
\* int(s) for a str of decimal digits
IntOf(s) ==
    IF s = <<>> THEN 0 ELSE 10 * IntOf(SubSeq(s, 1, Len(s) - 1)) + (s[Len(s)] - 48)

\* faulty variant: str(x) instead of two fixed decimals ("118.0", "0.125", "-1.5")
Format2f_Str(n) ==
    LET a == IF n < 0 THEN -n ELSE n
        frac == (a % 8) * 125
        digits == IF frac = 0 THEN <<48>>
                  ELSE IF frac % 100 = 0 THEN DecStr(frac \div 100)
                  ELSE IF frac % 10 = 0 THEN ZeroFill(DecStr(frac \div 10), 2)
                  ELSE ZeroFill(DecStr(frac), 3)
        sign == IF n < 0 THEN <<45>> ELSE <<>>
    IN  sign \o DecStr(a \div 8) \o <<46>> \o digits

\* "{:.2f}".format(x) for the double x = n/8: the exact value rounded to
\* cents, ties to even, with a leading "-" for a negative x
Format2f(n) ==
    LET a == IF n < 0 THEN -n ELSE n
        q == (a * 25) \div 2
        r == (a * 25) % 2
        cents == IF r = 0 THEN q ELSE IF q % 2 = 0 THEN q ELSE q + 1
        sign == IF n < 0 THEN <<45>> ELSE <<>>
    IN  sign \o DecStr(cents \div 100) \o <<46>> \o ZeroFill(DecStr(cents % 100), 2)

(***************************************************************************)
(* utils.calculate_crc                                                     *)
(***************************************************************************)
poly == 4129            \* 0x1021

\* the inner loop "for _ in range(8)", k iterations left
CrcBits[crc \in Nat, k \in Nat] ==
    IF k = 0 THEN crc
    ELSE LET c1 == IF And[crc, 32768] # 0      \* crc & 0x8000
                   THEN Xor[Shl[crc, 1], poly]
                   ELSE Shl[crc, 1]
         IN  CrcBits[And[c1, 65535], k - 1]    \* crc &= 0xFFFF

\* the outer loop over the bytes i..j, crc the register before byte i;
\* the bytes are taken in order, the range is split in halves
CrcBytes[crc \in Nat, i \in Nat, j \in Nat, bytes \in Seq(Nat)] ==
    IF i > j THEN crc
    ELSE IF i = j THEN CrcBits[Xor[crc, Shl[bytes[i], 8]], 8]
    ELSE CrcBytes[CrcBytes[crc, i, (i + j) \div 2, bytes], ((i + j) \div 2) + 1, j, bytes]

\* faulty variant: the register starts at 0 instead of 0xFFFF
calculate_crc_InitZero(payload) ==
    FormatHex04(CrcBytes[0, 1, Len(encode_utf8(payload)), encode_utf8(payload)])

calculate_crc(payload) ==
    FormatHex04(CrcBytes[65535, 1, Len(encode_utf8(payload)), encode_utf8(payload)])

(***************************************************************************)
(* PayNowGenerator._calculate_crc16                                        *)
(***************************************************************************)
polynomial == 4129      \* 0x1021

Crc16Bits[crc \in Nat, k \in Nat] ==
    IF k = 0 THEN crc
    ELSE LET c1 == IF And[crc, 32768] # 0
                   THEN Xor[Shl[crc, 1], polynomial]
                   ELSE Shl[crc, 1]
         IN  Crc16Bits[And[c1, 65535], k - 1]

Crc16Bytes[crc \in Nat, i \in Nat, j \in Nat, bytes \in Seq(Nat)] ==
    IF i > j THEN crc
    ELSE IF i = j THEN Crc16Bits[Xor[crc, Shl[bytes[i], 8]], 8]
    ELSE Crc16Bytes[Crc16Bytes[crc, i, (i + j) \div 2, bytes], ((i + j) \div 2) + 1, j, bytes]

\* faulty variant: a cache that ignores its key, the checksum of the previous
\* call is returned when there is one
calculate_crc16_Cached(d) ==
    IF crc_ret.calculate_crc16 # <<>> THEN crc_ret.calculate_crc16
    ELSE FormatHex04(Crc16Bytes[65535, 1, Len(encode_utf8(d)), encode_utf8(d)])

calculate_crc16(d) ==
    FormatHex04(Crc16Bytes[65535, 1, Len(encode_utf8(d)), encode_utf8(d)])

(***************************************************************************)
(* None, and Python's "x or y" on Optional[str]                            *)
(***************************************************************************)
None == <<-1>>          \* no str holds a negative code point

Or(x, y) == IF x = None \/ x = <<>> THEN y ELSE x

NoObject == [class |-> "None"]

(***************************************************************************)
(* paynow.py: class PayNowQR                                               *)
(***************************************************************************)
\* __init__; amount is the double amount/8, expiry_date a str of decimal
\* digits or ""
PayNowQR_init(recipient_type, recipient_id, recipient_name, amount, reference, expiry_date) ==
    [class |-> "PayNowQR",
     recipient_type |-> recipient_type,
     recipient_id |-> recipient_id,
     recipient_name |-> recipient_name,
     amount |-> Format2f(amount),
     reference |-> reference,
     expiry_date |-> IF expiry_date # <<>> THEN Format08d(IntOf(expiry_date)) ELSE S_20991230,
     brand_colour |-> "purple"]

\* the locals of generate_payload
\* faulty variant: the proxy types of UEN and mobile exchanged
recipient_type_id_Swapped(self) == IF self.recipient_type = S_UEN THEN S_0 ELSE S_2

recipient_type_id(self) == IF self.recipient_type = S_UEN THEN S_2 ELSE S_0

recipient_type_id_length(self) == FormatInt02(Len(recipient_type_id(self)))

recipient_id_length(self) == FormatInt02(Len(self.recipient_id))

amount_length(self) == FormatInt02(Len(self.amount))

reference_length(self) == FormatInt02(Len(self.reference))

recipient_name_length(self) == FormatInt02(Len(self.recipient_name))

additional_data_field_length(self) == FormatInt02(IntOf(reference_length(self)) + 4)

expiry_date_length(self) == FormatInt02(Len(self.expiry_date))

merchant_account_info(self) ==
    S_0009SG_PAYNOW
    \o S_01 \o recipient_type_id_length(self) \o recipient_type_id(self)
    \o S_02 \o recipient_id_length(self) \o self.recipient_id
    \o S_03010
    \o S_04 \o expiry_date_length(self) \o self.expiry_date

merchant_account_info_length(self) == FormatInt02(Len(merchant_account_info(self)))

\* the local "payload" before the checksum is appended
payload_body(self) ==
    S_000201
    \o S_010212
    \o S_26 \o merchant_account_info_length(self) \o merchant_account_info(self)
    \o S_52040000
    \o S_5303702
    \o S_54 \o amount_length(self) \o self.amount
    \o S_5802SG
    \o S_59 \o recipient_name_length(self) \o self.recipient_name
    \o S_6009Singapore
    \o S_62 \o additional_data_field_length(self)
    \o S_01 \o reference_length(self) \o self.reference

\* faulty variant: the checksum is computed without the "6304" suffix
generate_payload_CrcBeforeTag(self) ==
    LET payload == payload_body(self)
        checksum == calculate_crc(payload)
    IN  payload \o S_6304 \o checksum

generate_payload(self) ==
    LET payload == payload_body(self)
        checksum == calculate_crc(payload \o S_6304)
    IN  payload \o S_6304 \o checksum

\* the TLV fields generate_payload writes, in order: tag, length as written, value
QRField(tag, length, value) == [tag |-> tag, length |-> length, value |-> value]

QRNested26(self) ==
    << QRField(S_00, <<48,57>>, S_SG_PAYNOW),
       QRField(S_01, recipient_type_id_length(self), recipient_type_id(self)),
       QRField(S_02, recipient_id_length(self), self.recipient_id),
       QRField(S_03, S_01, S_0),
       QRField(S_04, expiry_date_length(self), self.expiry_date) >>

QRNested62(self) ==
    << QRField(S_01, reference_length(self), self.reference) >>

QRTopLevel(self) ==
    << QRField(S_00, S_02, S_01),
       QRField(S_01, S_02, S_12),
       QRField(S_26, merchant_account_info_length(self), merchant_account_info(self)),
       QRField(S_52, S_04, S_0000),
       QRField(S_53, S_03, S_702),
       QRField(S_54, amount_length(self), self.amount),
       QRField(S_58, S_02, S_SG),
       QRField(S_59, recipient_name_length(self), self.recipient_name),
       QRField(S_60, <<48,57>>, S_Singapore),
       QRField(S_62, additional_data_field_length(self),
               S_01 \o reference_length(self) \o self.reference),
       QRField(S_63, S_04, calculate_crc(payload_body(self) \o S_6304)) >>

QRFields(self) == QRTopLevel(self) \o QRNested26(self) \o QRNested62(self)

(***************************************************************************)
(* paynow_generator.py: class PayNowGenerator                              *)
(***************************************************************************)
\* __init__: an absent or empty argument falls back to the configuration
PayNowGenerator_init(recipient_phone, recipient_name) ==
    [class |-> "PayNowGenerator",
     recipient_phone |-> Or(recipient_phone, config.PAYNOW_RECIPIENT_PHONE),
     recipient_name |-> Or(recipient_name, config.PAYNOW_RECIPIENT_NAME)]

\* str.replace(old, "") for a one-character old
Remove(s, old) == SelectSeq(s, LAMBDA c : c # old)

\* s[:25]
Slice25(s) == SubSeq(s, 1, IF Len(s) < 25 THEN Len(s) ELSE 25)

format_field(tag, value) ==
    LET length == StrZfill2(Len(value))
    IN  tag \o length \o value

\* self.recipient_phone.replace("+", "").replace(" ", "")
mobile_number(self) == Remove(Remove(self.recipient_phone, 43), 32)

paynow_data(self) ==
    format_field(S_00, S_SG_PAYNOW)
    \o format_field(S_01, S_2)
    \o format_field(S_02, mobile_number(self))
    \o format_field(S_03, S_1)

additional_data(reference) == format_field(S_01, Slice25(reference))

\* the exception generate_paynow_string raises, "ok" when it returns
generate_paynow_string_raises(self) ==
    IF self.recipient_phone = None THEN "AttributeError"     \* None.replace
    ELSE IF self.recipient_name = None THEN "TypeError"      \* None[:25]
    ELSE "ok"

generate_paynow_string(self, amount, reference) ==
    LET p1 == format_field(S_00, S_01)
              \o format_field(S_01, S_12)
              \o format_field(S_26, paynow_data(self))
              \o format_field(S_52, S_0000)
              \o format_field(S_53, S_702)
              \o format_field(S_54, Format2f(amount))
              \o format_field(S_58, S_SG)
              \o format_field(S_59, Slice25(self.recipient_name))
        p2 == IF reference # <<>>
              THEN p1 \o format_field(S_62, additional_data(reference))
              ELSE p1
        payload == p2 \o S_6304
        crc == calculate_crc16(payload)
    IN  payload \o crc

\* the TLV fields generate_paynow_string writes: the (tag, value) of every
\* format_field call, with the length format_field wrote between them
FormattedField(tag, value) ==
    [tag |-> tag,
     length |-> SubSeq(format_field(tag, value), Len(tag) + 1,
                       Len(format_field(tag, value)) - Len(value)),
     value |-> value]

GeneratorFields(self, amount, reference) ==
    << FormattedField(S_00, S_SG_PAYNOW),
       FormattedField(S_01, S_2),
       FormattedField(S_02, mobile_number(self)),
       FormattedField(S_03, S_1),
       FormattedField(S_00, S_01),
       FormattedField(S_01, S_12),
       FormattedField(S_26, paynow_data(self)),
       FormattedField(S_52, S_0000),
       FormattedField(S_53, S_702),
       FormattedField(S_54, Format2f(amount)),
       FormattedField(S_58, S_SG),
       FormattedField(S_59, Slice25(self.recipient_name)) >>
    \o (IF reference # <<>>
        THEN << FormattedField(S_01, Slice25(reference)),
                FormattedField(S_62, additional_data(reference)) >>
        ELSE << >>)

(***************************************************************************)
(* Inputs                                                                  *)
(***************************************************************************)
\* the str of n copies of the character c
Rep(c, n) == [i \in 1..n |-> c]

S_91234567 == <<57,49,50,51,52,53,54,55>>                        \* "91234567"
S_JohnDoe == <<74,111,104,110,32,68,111,101>>                    \* "John Doe"
S_Jose == <<74,111,115,233>>                                     \* "Jose" with e-acute (2 bytes)
S_TestSplit == <<84,101,115,116,32,115,112,108,105,116>>         \* "Test split"
S_Lunch == <<21320,39184>>                                       \* two CJK characters (3 bytes each)
S_Phone == <<43,54,53,32,57,49,50,51,32,52,53,54,55>>            \* "+65 9123 4567"
S_EnvPhone == <<43,54,53,57,56,55,54,53,52,51,50>>               \* "+6598765432"
S_EnvName == <<65,104,32,83,101,110,103>>                        \* "Ah Seng"
S_20251231 == <<50,48,50,53,49,50,51,49>>                        \* "20251231"
S_202512310 == <<50,48,50,53,49,50,51,49,48>>                    \* "202512310", 9 digits
S_123456789 == <<49,50,51,52,53,54,55,56,57>>                    \* "123456789"

Configs ==
    { [PAYNOW_RECIPIENT_PHONE |-> None, PAYNOW_RECIPIENT_NAME |-> None],
      [PAYNOW_RECIPIENT_PHONE |-> S_EnvPhone, PAYNOW_RECIPIENT_NAME |-> S_EnvName] }

RecipientTypes == {S_MOBILE, S_UEN}
RecipientIds == {S_91234567, <<>>, Rep(57, LongIdLen)}
RecipientNames == {S_JohnDoe, S_Jose, Rep(65, 40), Rep(65, LongNameLen)}
Amounts == {944, 1, -12}            \* 118.00, 0.125, -1.5
References == {S_TestSplit, <<>>, S_Lunch, Rep(114, LongNameLen)}
ExpiryDates == {<<>>, S_20251231, S_202512310}

\* the concrete scenario: MOBILE "91234567" "John Doe" 118.00 "Test split", default expiry
Scenario ==
    [recipient_type |-> S_MOBILE, recipient_id |-> S_91234567, recipient_name |-> S_JohnDoe,
     amount |-> 944, reference |-> S_TestSplit, expiry_date |-> <<>>]

Varied(q) ==
    Cardinality({f \in DOMAIN Scenario : q[f] # Scenario[f]})

QRRequests ==
    {q \in [recipient_type : RecipientTypes, recipient_id : RecipientIds,
            recipient_name : RecipientNames, amount : Amounts,
            reference : References, expiry_date : ExpiryDates] : Varied(q) <= MaxVaried}

Phones == {S_Phone, None, Rep(57, LongPhoneLen)}
GeneratorNames == {S_JohnDoe, Rep(65, 40), None}
GeneratorAmounts == {944, 3, -12}   \* 118.00, 0.375, -1.5

Alphabet == {49, 65, 233, 8364, 128512}     \* 1-, 2-, 3- and 4-byte characters

RECURSIVE StrsUpTo(_)
StrsUpTo(n) ==
    IF n = 0 THEN {<<>>}
    ELSE LET shorter == StrsUpTo(n - 1)
         IN  shorter \cup {<<c>> \o s : c \in Alphabet, s \in {t \in shorter : Len(t) = n - 1}}

CrcInputs == StrsUpTo(MaxDataLen) \cup {S_123456789}

NotCalled == <<>>       \* a checksum is 4 characters, never the empty str

NoRequest ==
    [recipient_type |-> None, recipient_id |-> None, recipient_name |-> None,
     amount |-> 0, reference |-> None, expiry_date |-> None]

NoCall == [op |-> "none", status |-> "ok", ret |-> <<>>]

(***************************************************************************)
(* The encoders: construct an object, call its method                      *)
(***************************************************************************)
\* nothing but the encoders and the checksum functions is in use
NoFrame == [fn |-> "none", pc |-> "idle", bytes |-> <<>>, i |-> 0, k |-> 0, crc |-> 0]

\* no bill analysed, no totals computed
NoBill == [status |-> "none"]
NoPeople == << >>
NoTotals == [status |-> "none"]

\* no conversation, no recipient stored
EmptyDict == [k \in {} |-> 0]
NoFile == [exists |-> FALSE]
NoStorage == [class |-> "none"]
NoPosts == [photos |-> << >>, all_done |-> FALSE]

BeyondBillIdle ==
    /\ state = "END"
    /\ user_data = EmptyDict
    /\ sent = << >>
    /\ paynow_storage = NoStorage
    /\ file = NoFile
    /\ pairings_file = NoFile
    /\ posted = NoPosts
    /\ other_chat = "END"

BeyondPayNowIdle ==
    /\ bill = NoBill
    /\ people = NoPeople
    /\ totals = NoTotals
    /\ BeyondBillIdle

BeyondEncodersIdle ==
    /\ history = {}
    /\ frame = NoFrame
    /\ BeyondPayNowIdle

Init ==
    /\ config \in Configs
    /\ obj = NoObject
    /\ request = NoRequest
    /\ last = NoCall
    /\ data = <<>>
    /\ crc_ret = [calculate_crc |-> NotCalled, calculate_crc16 |-> NotCalled]
    /\ BeyondEncodersIdle

\* PayNowQR(recipient_type, recipient_id, recipient_name, amount, reference, expiry_date)
NewPayNowQR ==
    \E q \in QRRequests :
        /\ obj' = PayNowQR_init(q.recipient_type, q.recipient_id, q.recipient_name,
                                q.amount, q.reference, q.expiry_date)
        /\ request' = q
        /\ last' = [NoCall EXCEPT !.op = "PayNowQR"]
        /\ UNCHANGED <<config, data, crc_ret>>
        /\ UNCHANGED beyondEncoders

\* obj.generate_payload()
GeneratePayload ==
    /\ obj.class = "PayNowQR"
    /\ last' = [NoCall EXCEPT !.op = "generate_payload", !.ret = generate_payload(obj)]
    /\ UNCHANGED <<config, obj, request, data, crc_ret>>
    /\ UNCHANGED beyondEncoders

\* PayNowGenerator(recipient_phone, recipient_name)
NewPayNowGenerator ==
    \E p \in Phones, n \in GeneratorNames :
        /\ obj' = PayNowGenerator_init(p, n)
        /\ request' = [NoRequest EXCEPT !.recipient_id = p, !.recipient_name = n]
        /\ last' = [NoCall EXCEPT !.op = "PayNowGenerator"]
        /\ UNCHANGED <<config, data, crc_ret>>
        /\ UNCHANGED beyondEncoders

\* obj.generate_paynow_string(amount, reference)
GeneratePaynowString ==
    /\ obj.class = "PayNowGenerator"
    /\ \E a \in GeneratorAmounts, r \in References :
        LET raises == generate_paynow_string_raises(obj)
        IN  /\ request' = [request EXCEPT !.amount = a, !.reference = r]
            /\ last' = [op |-> "generate_paynow_string",
                        status |-> raises,
                        ret |-> IF raises = "ok" THEN generate_paynow_string(obj, a, r) ELSE <<>>]
    /\ UNCHANGED <<config, obj, data, crc_ret>>
    /\ UNCHANGED beyondEncoders

Next == NewPayNowQR \/ GeneratePayload \/ NewPayNowGenerator \/ GeneratePaynowString

Spec == Init /\ [][Next]_vars

(***************************************************************************)
(* The checksum functions applied to a str                                 *)
(***************************************************************************)
InitCrc ==
    /\ config \in Configs
    /\ obj = NoObject
    /\ request = NoRequest
    /\ last = NoCall
    /\ data \in CrcInputs
    /\ crc_ret = [calculate_crc |-> NotCalled, calculate_crc16 |-> NotCalled]
    /\ BeyondEncodersIdle

\* calculate_crc(data)
CalculateCrc ==
    /\ crc_ret' = [crc_ret EXCEPT !.calculate_crc = calculate_crc(data)]
    /\ UNCHANGED <<config, obj, request, last, data>>
    /\ UNCHANGED beyondEncoders

\* PayNowGenerator._calculate_crc16(data)
CalculateCrc16 ==
    /\ crc_ret' = [crc_ret EXCEPT !.calculate_crc16 = calculate_crc16(data)]
    /\ UNCHANGED <<config, obj, request, last, data>>
    /\ UNCHANGED beyondEncoders

NextCrc == CalculateCrc \/ CalculateCrc16

SpecCrc == InitCrc /\ [][NextCrc]_vars

(***************************************************************************)
(* The checksum as the specification words it: a 16-bit register, here a   *)
(* sequence of 16 bits, most significant first                             *)
(***************************************************************************)
RefOnes == [i \in 1..16 |-> 1]                                   \* 0xFFFF
RefPoly == <<0,0,0,1, 0,0,0,0, 0,0,1,0, 0,0,0,1>>                \* 0x1021
RefHexChars == <<48,49,50,51,52,53,54,55,56,57,65,66,67,68,69,70>>   \* "0123456789ABCDEF"

\* the 8 bits of a byte, most significant first
RefByteBits(b) == [i \in 1..8 |-> (b \div (2 ^ (8 - i))) % 2]

\* step a: the byte, shifted left by 8, XORed into the register
RefXorByte[r \in [1..16 -> {0, 1}], b \in 0..255] ==
    [i \in 1..16 |-> IF i <= 8 THEN (r[i] + RefByteBits(b)[i]) % 2 ELSE r[i]]

\* step b, once: shift left by 1, XOR the polynomial when the high bit was set
RefShift[r \in [1..16 -> {0, 1}]] ==
    IF r[1] = 1
    THEN [i \in 1..16 |-> ((IF i = 16 THEN 0 ELSE r[i + 1]) + RefPoly[i]) % 2]
    ELSE [i \in 1..16 |-> IF i = 16 THEN 0 ELSE r[i + 1]]

RefShifts[r \in [1..16 -> {0, 1}], k \in 0..8] ==
    IF k = 0 THEN r ELSE RefShifts[RefShift[r], k - 1]

\* the register after the bytes i..j
RefBytes[r \in [1..16 -> {0, 1}], i \in Nat, j \in Nat, bytes \in Seq(0..255)] ==
    IF i > j THEN r
    ELSE IF i = j THEN RefShifts[RefXorByte[r, bytes[i]], 8]
    ELSE RefBytes[RefBytes[r, i, (i + j) \div 2, bytes], ((i + j) \div 2) + 1, j, bytes]

\* step 3: four uppercase hex digits
RefHex(r) ==
    [k \in 1..4 |-> RefHexChars[1 + 8 * r[4 * k - 3] + 4 * r[4 * k - 2] + 2 * r[4 * k - 1] + r[4 * k]]]

RefChecksum(s) == RefHex(RefBytes[RefOnes, 1, Len(encode_utf8(s)), encode_utf8(s)])

(***************************************************************************)
(* C1: for every input str, calculate_crc and _calculate_crc16 each return *)
(* the CRC-16/CCITT value of its UTF-8 bytes as specified (register from   *)
(* 0xFFFF, byte XORed into the high 8 bits, 8 shifts with polynomial       *)
(* 0x1021, 16-bit mask), so the two return the same result.                *)
(***************************************************************************)
C1_ChecksumAsSpecified ==
    /\ crc_ret.calculate_crc # NotCalled => crc_ret.calculate_crc = RefChecksum(data)
    /\ crc_ret.calculate_crc16 # NotCalled => crc_ret.calculate_crc16 = RefChecksum(data)
    /\ (crc_ret.calculate_crc # NotCalled /\ crc_ret.calculate_crc16 # NotCalled)
           => crc_ret.calculate_crc = crc_ret.calculate_crc16

\* both functions were applied to "123456789" and returned the published check value "29B1"
C1_Witness ==
    /\ data = S_123456789
    /\ crc_ret.calculate_crc = <<50,57,66,49>>
    /\ crc_ret.calculate_crc16 = <<50,57,66,49>>

\* the last call was op and it returned (did not raise)
Returned(op) == last.op = op /\ last.status = "ok"

(***************************************************************************)
(* C2: every payload returned by generate_payload and by                   *)
(* generate_paynow_string is P + "6304" + C with C, its last 4 characters, *)
(* the checksum of P + "6304".                                             *)
(***************************************************************************)
C2_ChecksumPlacement ==
    (Returned("generate_payload") \/ Returned("generate_paynow_string")) =>
        LET n == Len(last.ret)
        IN  /\ n >= 8
            /\ SubSeq(last.ret, n - 7, n - 4) = S_6304
            /\ SubSeq(last.ret, n - 3, n) = RefChecksum(SubSeq(last.ret, 1, n - 4))

\* a payload of PayNowQR whose recipient name holds a 2-byte character was returned
C2_Witness ==
    /\ Returned("generate_payload")
    /\ request.recipient_name = S_Jose
    /\ Len(last.ret) >= 8

Contains(s, t) ==
    \E i \in 1..(Len(s) - Len(t) + 1) : SubSeq(s, i, i + Len(t) - 1) = t

IsHexDigit(c) == c \in 48..57 \/ c \in 65..70

(***************************************************************************)
(* C3: encoding {MOBILE, "91234567", "John Doe", 118.00, "Test split",     *)
(* default expiry} yields a payload that begins with "000201010212", is    *)
(* followed by a tag-26 block containing "0009SG.PAYNOW", contains the     *)
(* amount field "5406118.00" and ends with a 4-hex-digit CRC that verifies *)
(* against the rest of the string.                                         *)
(***************************************************************************)
C3_ConcreteScenario ==
    (Returned("generate_payload") /\ request = Scenario) =>
        LET p == last.ret
            n == Len(p)
            len26 == IntOf(SubSeq(p, 15, 16))
        IN  /\ n >= 20
            /\ SubSeq(p, 1, 12) = <<48,48,48,50,48,49,48,49,48,50,49,50>>      \* "000201010212"
            /\ SubSeq(p, 13, 14) = <<50,54>>                                   \* "26"
            /\ 16 + len26 <= n
            /\ Contains(SubSeq(p, 17, 16 + len26),
                        <<48,48,48,57,83,71,46,80,65,89,78,79,87>>)            \* "0009SG.PAYNOW"
            /\ Contains(p, <<53,52,48,54,49,49,56,46,48,48>>)                  \* "5406118.00"
            /\ \A i \in (n - 3)..n : IsHexDigit(p[i])
            /\ SubSeq(p, n - 3, n) = RefChecksum(SubSeq(p, 1, n - 4))

\* the scenario was encoded and its payload returned
C3_Witness ==
    /\ Returned("generate_payload")
    /\ request = Scenario
    /\ Len(last.ret) >= 20

\* the fields written by the call that just returned
EmittedFields ==
    IF Returned("generate_payload") THEN QRFields(obj)
    ELSE IF Returned("generate_paynow_string")
         THEN GeneratorFields(obj, request.amount, request.reference)
    ELSE << >>

(***************************************************************************)
(* C4: for every TLV field the encoders emit (top level and nested in tags *)
(* 26 and 62) the embedded length equals the UTF-8 byte length of the      *)
(* value that follows it, for ASCII input and for a name or reference with *)
(* a multi-byte character.                                                 *)
(***************************************************************************)
C4_LengthIsByteLength ==
    \A i \in DOMAIN EmittedFields :
        IntOf(EmittedFields[i].length) = Len(encode_utf8(EmittedFields[i].value))

(***************************************************************************)
(* C5: every length field in a payload of generate_payload or              *)
(* generate_paynow_string is exactly two decimal digits, for every input   *)
(* the encoder accepts.                                                    *)
(***************************************************************************)
C5_LengthIsTwoDigits ==
    \A i \in DOMAIN EmittedFields :
        /\ Len(EmittedFields[i].length) = 2
        /\ \A k \in 1..Len(EmittedFields[i].length) : EmittedFields[i].length[k] \in 48..57

(***************************************************************************)
(* Reading a payload back with the TLV rules: 2-character tag, 2-digit     *)
(* length, that many units of value, repeat.  A read that cannot go on     *)
(* ends with the field TlvError.                                           *)
(***************************************************************************)
TlvError == [tag |-> <<-1>>, value |-> <<>>]

ParseTLV[u \in Seq(Nat), i \in Nat] ==
    IF i > Len(u) THEN << >>
    ELSE IF i + 3 > Len(u) \/ u[i + 2] \notin 48..57 \/ u[i + 3] \notin 48..57
         THEN <<TlvError>>
    ELSE IF i + 3 + (10 * (u[i + 2] - 48) + (u[i + 3] - 48)) > Len(u)
         THEN <<TlvError>>
    ELSE << [tag |-> SubSeq(u, i, i + 1),
             value |-> SubSeq(u, i + 4, i + 3 + (10 * (u[i + 2] - 48) + (u[i + 3] - 48)))] >>
         \o ParseTLV[u, i + 4 + (10 * (u[i + 2] - 48) + (u[i + 3] - 48))]

Tags(fields) == [i \in DOMAIN fields |-> fields[i].tag]

\* the value of the first field with this tag, None when there is none
FieldValue(fields, tag) ==
    IF \E i \in DOMAIN fields : fields[i].tag = tag
    THEN fields[CHOOSE i \in DOMAIN fields :
                    fields[i].tag = tag /\ \A j \in 1..(i - 1) : fields[j].tag # tag].value
    ELSE None

TagValue(tag, value) == [tag |-> tag, value |-> value]

\* what the request asks the payload to carry
ProxyType(q) == IF q.recipient_type = S_UEN THEN <<50>> ELSE <<48>>     \* "2", "0"
ExpiryOf(q) == IF q.expiry_date = <<>> THEN <<50,48,57,57,49,50,51,48>> ELSE q.expiry_date

(***************************************************************************)
(* C6: a payload of generate_payload, parsed back with the TLV rules (the  *)
(* same rules inside tags 26 and 62), is consumed completely and           *)
(* reproduces exactly the supplied recipient id, amount, recipient name,   *)
(* reference and expiry, plus the defaulted constant fields.               *)
(***************************************************************************)
C6_RoundTrip ==
    Returned("generate_payload") =>
        LET top == ParseTLV[encode_utf8(last.ret), 1]
        IN  /\ Tags(top) = <<S_00, S_01, S_26, S_52, S_53, S_54, S_58, S_59, S_60, S_62, S_63>>
            /\ FieldValue(top, S_00) = <<48,49>>
            /\ FieldValue(top, S_01) = <<49,50>>
            /\ ParseTLV[FieldValue(top, S_26), 1] =
                   << TagValue(S_00, <<83,71,46,80,65,89,78,79,87>>),
                      TagValue(S_01, ProxyType(request)),
                      TagValue(S_02, encode_utf8(request.recipient_id)),
                      TagValue(S_03, <<48>>),
                      TagValue(S_04, ExpiryOf(request)) >>
            /\ FieldValue(top, S_52) = <<48,48,48,48>>
            /\ FieldValue(top, S_53) = <<55,48,50>>
            /\ FieldValue(top, S_54) = Format2f(request.amount)
            /\ FieldValue(top, S_58) = <<83,71>>
            /\ FieldValue(top, S_59) = encode_utf8(request.recipient_name)
            /\ FieldValue(top, S_60) = <<83,105,110,103,97,112,111,114,101>>
            /\ ParseTLV[FieldValue(top, S_62), 1] =
                   << TagValue(S_01, encode_utf8(request.reference)) >>

\* a field as the payload table describes it: tag, decimal length of the
\* value (at least two digits), value
LenDigits(n) == IF n < 10 THEN <<48>> \o DecStr(n) ELSE DecStr(n)

Tlv(tag, value) == tag \o LenDigits(Len(value)) \o value

SubPayload26(q) ==
    Tlv(S_00, <<83,71,46,80,65,89,78,79,87>>)
    \o Tlv(S_01, ProxyType(q))
    \o Tlv(S_02, q.recipient_id)
    \o Tlv(S_03, <<48>>)
    \o Tlv(S_04, ExpiryOf(q))

TopLevelBeforeCrc(q) ==
    Tlv(S_00, <<48,49>>)
    \o Tlv(S_01, <<49,50>>)
    \o Tlv(S_26, SubPayload26(q))
    \o Tlv(S_52, <<48,48,48,48>>)
    \o Tlv(S_53, <<55,48,50>>)
    \o Tlv(S_54, Format2f(q.amount))
    \o Tlv(S_58, <<83,71>>)
    \o Tlv(S_59, q.recipient_name)
    \o Tlv(S_60, <<83,105,110,103,97,112,111,114,101>>)
    \o Tlv(S_62, Tlv(S_01, q.reference))

(***************************************************************************)
(* C7: every payload of generate_payload consists of exactly the top-level *)
(* tags 00, 01, 26, 52, 53, 54, 58, 59, 60, 62, 63 in this order, with     *)
(* values "01", "12", the PayNow sub-payload, "0000", "702", the amount    *)
(* with 2 fractional digits, "SG", the recipient name, "Singapore", the    *)
(* reference wrapped as nested tag 01, and the checksum; tag 62 is present *)
(* also for the empty reference.  A field is its tag, the decimal length   *)
(* of its value (at least two digits) and its value.                       *)
(***************************************************************************)
C7_TopLevelFields ==
    Returned("generate_payload") =>
        last.ret = TopLevelBeforeCrc(request)
                   \o Tlv(S_63, RefChecksum(TopLevelBeforeCrc(request) \o <<54,51,48,52>>))

(***************************************************************************)
(* C8: in every payload of generate_payload the value of tag 26 is the     *)
(* concatenation, in this order, of sub-field 00 = "SG.PAYNOW", 01 = proxy *)
(* type ("0" for MOBILE, "2" for UEN), 02 = the recipient id, 03 = "0",    *)
(* 04 = the expiry date, and the tag-26 length (the number written after   *)
(* the tag) equals the length of that concatenation.                       *)
(***************************************************************************)
C8_Tag26 ==
    Returned("generate_payload") =>
        LET v == SubPayload26(request)
            digits == LenDigits(Len(v))
            p == last.ret
        IN  /\ Len(p) >= 14 + Len(digits) + Len(v)
            /\ SubSeq(p, 13, 14) = <<50,54>>
            /\ SubSeq(p, 15, 14 + Len(digits)) = digits
            /\ IntOf(SubSeq(p, 15, 14 + Len(digits))) = Len(v)
            /\ SubSeq(p, 15 + Len(digits), 14 + Len(digits) + Len(v)) = v
            /\ SubSeq(p, 15 + Len(digits) + Len(v), 16 + Len(digits) + Len(v)) = <<53,50>>   \* tag 52 follows

\* a payload for a UEN recipient with an explicit expiry was returned
C8_Witness ==
    /\ Returned("generate_payload")
    /\ request.recipient_type = S_UEN
    /\ request.expiry_date = S_20251231
    /\ Contains(last.ret, <<48,49,48,49,50>>)        \* "01012"

(***************************************************************************)
(* C9: PayNowGenerator encodes a recipient identified by a mobile phone    *)
(* number; in every payload of generate_paynow_string the proxy-type       *)
(* sub-field 01 of tag 26 carries the mobile value "0".                    *)
(***************************************************************************)
C9_GeneratorProxyTypeMobile ==
    Returned("generate_paynow_string") =>
        FieldValue(ParseTLV[FieldValue(ParseTLV[last.ret, 1], S_26), 1], S_01) = <<48>>

(***************************************************************************)
(* C10: every payload of generate_paynow_string carries the top-level tags *)
(* 00, 01, 26, 52, 53, 54, 58, 59, 60 ("Singapore"), 62 (reference), 63 in *)
(* this order, for every amount and reference including the empty one, and *)
(* its tag 26 carries the sub-fields 00, 01, 02, 03 ("0"), 04 (expiry).    *)
(***************************************************************************)
C10_GeneratorTagTable ==
    Returned("generate_paynow_string") =>
        LET top == ParseTLV[last.ret, 1]
            sub == ParseTLV[FieldValue(top, S_26), 1]
        IN  /\ Tags(top) = <<S_00, S_01, S_26, S_52, S_53, S_54, S_58, S_59, S_60, S_62, S_63>>
            /\ FieldValue(top, S_60) = <<83,105,110,103,97,112,111,114,101>>
            /\ Tags(sub) = <<S_00, S_01, S_02, S_03, S_04>>
            /\ FieldValue(sub, S_03) = <<48>>

\* the UTF-8 byte length of a str
ByteLen(s) == Len(encode_utf8(s))

\* a request the failure semantics call malformed: negative amount, empty
\* recipient id, name or reference over 25 bytes
MalformedQR(q) ==
    \/ q.amount < 0
    \/ q.recipient_id = <<>>
    \/ ByteLen(q.recipient_name) > 25
    \/ ByteLen(q.reference) > 25

\* the same for a generate_paynow_string call on the object self (its phone
\* and name are those the constructor settled on)
MalformedGenerator(self, q) ==
    \/ q.amount < 0
    \/ ByteLen(q.reference) > 25
    \/ (self.recipient_phone # None /\ mobile_number(self) = <<>>)
    \/ (self.recipient_name # None /\ ByteLen(self.recipient_name) > 25)

(***************************************************************************)
(* C11: the encoders fail fast on malformed input: a request with a        *)
(* negative amount, an empty recipient id, or a name or reference longer   *)
(* than 25 bytes is rejected with an error and no payload string is        *)
(* returned for it.                                                        *)
(***************************************************************************)
C11_FailFast ==
    /\ (last.op = "generate_payload" /\ MalformedQR(request))
           => (last.status # "ok" /\ last.ret = <<>>)
    /\ (last.op = "generate_paynow_string" /\ MalformedGenerator(obj, request))
           => (last.status # "ok" /\ last.ret = <<>>)

\* the name and the reference as the call that just returned embedded them:
\* tag 59 and sub-field 01 of tag 62 (no reference field when the generator
\* wrote no tag 62)
NameField ==
    IF Returned("generate_payload") THEN <<QRTopLevel(obj)[8]>>
    ELSE IF Returned("generate_paynow_string")
         THEN <<GeneratorFields(obj, request.amount, request.reference)[12]>>
    ELSE << >>

ReferenceField ==
    IF Returned("generate_payload") THEN QRNested62(obj)
    ELSE IF Returned("generate_paynow_string") /\ request.reference # <<>>
         THEN <<GeneratorFields(obj, request.amount, request.reference)[13]>>
    ELSE << >>

\* the recipient name the encoder object holds is 40 characters long
NameOf40 == obj.class # "None" /\ obj.recipient_name # None /\ Len(obj.recipient_name) = 40

(***************************************************************************)
(* C12: a recipient name of 40 characters is embedded in tag 59 truncated  *)
(* to 25 bytes with the length field 25; in every generated payload the    *)
(* tag-59 value and the reference value of tag 62/01 are at most 25 bytes  *)
(* long, for ASCII and for multi-byte input.                               *)
(***************************************************************************)
C12_TruncatedTo25 ==
    /\ \A i \in DOMAIN NameField :
          /\ NameField[i].tag = S_59
          /\ ByteLen(NameField[i].value) <= 25
          /\ NameOf40 => (NameField[i].length = <<50,53>> /\ ByteLen(NameField[i].value) = 25)
    /\ \A i \in DOMAIN ReferenceField :
          /\ ReferenceField[i].tag = S_01
          /\ ByteLen(ReferenceField[i].value) <= 25

(***************************************************************************)
(* Checksum verification of a payload in which one character was replaced  *)
(***************************************************************************)
\* the requests whose payloads are mutated: the concrete scenario and the
\* same with a name that holds a 2-byte character
MutatedRequests == {Scenario, [Scenario EXCEPT !.recipient_name = S_Jose]}

\* the characters written over a position: ASCII, a 2-byte character, and
\* U+A8E8 (3 bytes), which in first position of the scenario's payload
\* leaves the checksum as it was
Replacements == {65, 241, 43240}

\* PayNowQR(...).generate_payload() for a request to be mutated
EncodeForMutation ==
    /\ last.op = "none"
    /\ \E q \in MutatedRequests :
        /\ obj' = PayNowQR_init(q.recipient_type, q.recipient_id, q.recipient_name,
                                q.amount, q.reference, q.expiry_date)
        /\ request' = q
        /\ last' = [NoCall EXCEPT !.op = "generate_payload", !.ret = generate_payload(obj')]
    /\ UNCHANGED <<config, data, crc_ret>>
    /\ UNCHANGED beyondEncoders

\* one character before the trailing checksum is replaced by a different
\* one, and the checksum is recomputed over the result as a verifier does:
\* calculate_crc(mutated payload without its last 4 characters)
MutateAndVerify ==
    /\ Returned("generate_payload")
    /\ data = <<>>
    /\ \E i \in 1..(Len(last.ret) - 4), c \in Replacements :
        /\ c # last.ret[i]
        /\ data' = [SubSeq(last.ret, 1, Len(last.ret) - 4) EXCEPT ![i] = c]
        /\ crc_ret' = [crc_ret EXCEPT !.calculate_crc = calculate_crc(data')]
    /\ UNCHANGED <<config, obj, request, last>>
    /\ UNCHANGED beyondEncoders

NextMutate == EncodeForMutation \/ MutateAndVerify

SpecMutate == Init /\ [][NextMutate]_vars

\* a mutated payload was verified
Verified == Returned("generate_payload") /\ data # <<>> /\ crc_ret.calculate_crc # NotCalled

\* the checksum the payload carries: its last 4 characters
Carried == SubSeq(last.ret, Len(last.ret) - 3, Len(last.ret))

\* the positions at which the mutated payload differs from the returned one
MutatedAt == {i \in 1..Len(data) : data[i] # last.ret[i]}

(***************************************************************************)
(* C13 as claimed: for every generated payload and every position before   *)
(* the trailing 4-character checksum, replacing the character there by any *)
(* different character makes verification fail: the checksum recomputed    *)
(* over the mutated payload without its last 4 characters differs from     *)
(* those 4 characters.                                                     *)
(***************************************************************************)
C13_AnyMutationDetected ==
    Verified => crc_ret.calculate_crc # Carried

(***************************************************************************)
(* C13 amended: the same, for a replacement whose UTF-8 encoding is as     *)
(* long as that of the character it replaces and at most 2 bytes (an ASCII *)
(* character for an ASCII character, a 2-byte one for a 2-byte one).       *)
(***************************************************************************)
C13_SameWidthMutationDetected ==
    (Verified /\ \A i \in MutatedAt :
                    /\ Len(Utf8Char(data[i])) = Len(Utf8Char(last.ret[i]))
                    /\ Len(Utf8Char(data[i])) <= 2)
        => crc_ret.calculate_crc # Carried

\* the 2-byte character of the name was replaced by another 2-byte
\* character, and verification failed
C13_Witness ==
    /\ Verified
    /\ \E i \in MutatedAt : last.ret[i] = 233 /\ data[i] = 241
    /\ crc_ret.calculate_crc # Carried

(***************************************************************************)
(* Encode calls repeated and interleaved with other encode calls and with  *)
(* checksum calls                                                          *)
(***************************************************************************)
\* the arguments of the repeated PayNowQR encodes
PureRequests == {Scenario, [Scenario EXCEPT !.recipient_name = S_Jose]}

\* the arguments of the repeated PayNowGenerator encodes: (phone, name)
\* given, or left to the configuration
PureRecipients == {<<S_Phone, S_JohnDoe>>, <<None, None>>}

\* PayNowQR(...).generate_payload()
EncodeQR ==
    \E q \in PureRequests :
        LET self == PayNowQR_init(q.recipient_type, q.recipient_id, q.recipient_name,
                                  q.amount, q.reference, q.expiry_date)
            ret == generate_payload(self)
        IN  /\ obj' = self
            /\ request' = q
            /\ last' = [NoCall EXCEPT !.op = "generate_payload", !.ret = ret]
            /\ history' = history \cup {<<q, ret>>}
            /\ UNCHANGED <<config, data, crc_ret, frame>>
            /\ UNCHANGED beyondPayNow

\* PayNowGenerator(phone, name).generate_paynow_string(118.00, "Test split")
EncodeGenerator ==
    \E pn \in PureRecipients :
        LET self == PayNowGenerator_init(pn[1], pn[2])
            q == [NoRequest EXCEPT !.recipient_id = pn[1], !.recipient_name = pn[2],
                                   !.amount = 944, !.reference = S_TestSplit]
            raises == generate_paynow_string_raises(self)
            ret == IF raises = "ok" THEN generate_paynow_string(self, 944, S_TestSplit) ELSE <<>>
        IN  /\ obj' = self
            /\ request' = q
            /\ last' = [op |-> "generate_paynow_string", status |-> raises, ret |-> ret]
            /\ history' = history \cup {<<q, <<raises, ret>> >>}
            /\ UNCHANGED <<config, data, crc_ret, frame>>
            /\ UNCHANGED beyondPayNow

\* calculate_crc("123456789") and _calculate_crc16("123456789") between two encodes
ChecksumBetween ==
    /\ data' = S_123456789
    /\ crc_ret' = [calculate_crc |-> calculate_crc(S_123456789),
                   calculate_crc16 |-> calculate_crc16(S_123456789)]
    /\ UNCHANGED <<config, obj, request, last, history, frame>>
    /\ UNCHANGED beyondPayNow

NextPure == EncodeQR \/ EncodeGenerator \/ ChecksumBetween

SpecPure == Init /\ [][NextPure]_vars

S_wnO == <<119,110,79>>                 \* "wnO", whose checksum is 0x000A

\* the str the stepped checksum is applied to: empty, ASCII, 2- and 4-byte characters
StepInputs == {<<>>, S_wnO, S_123456789, S_Jose, <<128512>>}

ChecksumFunctions == {"calculate_crc", "calculate_crc16"}

\* the polynomial each function XORs in
PolyOf(fn) == IF fn = "calculate_crc" THEN poly ELSE polynomial

InitCrcSteps ==
    /\ config \in Configs
    /\ obj = NoObject
    /\ request = NoRequest
    /\ last = NoCall
    /\ data \in StepInputs
    /\ crc_ret = [calculate_crc |-> NotCalled, calculate_crc16 |-> NotCalled]
    /\ BeyondEncodersIdle

\* entry: crc = 0xFFFF, the payload encoded to bytes
CrcEnter ==
    /\ frame.pc \in {"idle", "returned"}
    /\ \E fn \in ChecksumFunctions :
        /\ crc_ret[fn] = NotCalled
        /\ frame' = [fn |-> fn, pc |-> "loop", bytes |-> encode_utf8(data),
                     i |-> 0, k |-> 0, crc |-> 65535]
    /\ UNCHANGED <<config, obj, request, last, data, crc_ret, history>>
    /\ UNCHANGED beyondPayNow

\* the outer loop takes the next byte: crc ^= byte << 8
CrcNextByte ==
    /\ frame.pc = "loop"
    /\ frame.k = 0
    /\ frame.i < Len(frame.bytes)
    /\ frame' = [frame EXCEPT !.i = frame.i + 1, !.k = 8,
                              !.crc = Xor[frame.crc, Shl[frame.bytes[frame.i + 1], 8]]]
    /\ UNCHANGED <<config, obj, request, last, data, crc_ret, history>>
    /\ UNCHANGED beyondPayNow

\* faulty variant: the mask "crc &= 0xFFFF" is missing
CrcShiftStep_NoMask(crc, p) ==
    IF And[crc, 32768] # 0 THEN Xor[Shl[crc, 1], p] ELSE Shl[crc, 1]

\* one iteration of the inner loop on the register crc with the polynomial p
CrcShiftStep(crc, p) ==
    And[IF And[crc, 32768] # 0 THEN Xor[Shl[crc, 1], p] ELSE Shl[crc, 1], 65535]

CrcBitStep ==
    /\ frame.pc = "loop"
    /\ frame.k > 0
    /\ frame' = [frame EXCEPT !.k = frame.k - 1,
                              !.crc = CrcShiftStep(frame.crc, PolyOf(frame.fn))]
    /\ UNCHANGED <<config, obj, request, last, data, crc_ret, history>>
    /\ UNCHANGED beyondPayNow

\* the loops are over: return f"{crc:04X}"
CrcReturn ==
    /\ frame.pc = "loop"
    /\ frame.k = 0
    /\ frame.i = Len(frame.bytes)
    /\ frame' = [frame EXCEPT !.pc = "returned"]
    /\ crc_ret' = [crc_ret EXCEPT ![frame.fn] = FormatHex04(frame.crc)]
    /\ UNCHANGED <<config, obj, request, last, data, history>>
    /\ UNCHANGED beyondPayNow

NextCrcSteps == CrcEnter \/ CrcNextByte \/ CrcBitStep \/ CrcReturn

SpecCrcSteps == InitCrcSteps /\ [][NextCrcSteps]_vars

\* the number a str of hex digits denotes; -1 when a character is no
\* uppercase hex digit
RECURSIVE HexValue(_)
HexValue(s) ==
    IF s = <<>> THEN 0
    ELSE LET c == s[Len(s)]
             high == HexValue(SubSeq(s, 1, Len(s) - 1))
         IN  IF high < 0 \/ ~IsHexDigit(c) THEN -1
             ELSE 16 * high + (IF c <= 57 THEN c - 48 ELSE c - 55)

ExpiryField == IF Returned("generate_payload") THEN <<QRNested26(obj)[5]>> ELSE << >>

(***************************************************************************)
(* C16: the expiry PayNowQR embeds in sub-field 04 of tag 26 is always an  *)
(* 8-digit str with the length field "08", for every expiry the            *)
(* constructor accepts; with no expiry supplied it is "20991230".          *)
(***************************************************************************)
C16_ExpiryIsEightDigits ==
    \A i \in DOMAIN ExpiryField :
        LET f == ExpiryField[i]
        IN  /\ f.tag = S_04
            /\ f.length = <<48,56>>
            /\ Len(f.value) = 8
            /\ \A k \in 1..Len(f.value) : f.value[k] \in 48..57
            /\ Contains(last.ret, f.tag \o f.length \o f.value \o <<53,50,48,52>>)
            /\ request.expiry_date = <<>> => f.value = <<50,48,57,57,49,50,51,48>>

(***************************************************************************)
(* bill_analyzer.py and person_matcher.py: apportioning a bill             *)
(*                                                                         *)
(* An amount is the float nearest to a number of cents and is carried as   *)
(* that number of cents.  round(x, 2) gives the cent value nearest to x;   *)
(* when the exact value of x lies half way between two cent values, the    *)
(* error of the float operations before it decides, and either neighbour   *)
(* is a possible result.  A share ratio is carried in hundredths.  A dict  *)
(* is a record whose DOMAIN is the set of its keys; the keys 'name',       *)
(* 'restaurant', 'position' and 'confidence' play no part and are left     *)
(* out.                                                                    *)
(***************************************************************************)
MaxItems == 2        \* the longest item list of a bill
MaxAssigned == 2     \* the longest item list of a person

Abs(x) == IF x < 0 THEN -x ELSE x

\* the largest integer at most num/den, den > 0
Floor(num, den) == IF num >= 0 THEN num \div den ELSE -((-num + den - 1) \div den)

\* faulty variant: the value is cut off after the cents (int(x * 100) / 100)
Round2_Truncate(num, den) == {IF num >= 0 THEN num \div den ELSE -((-num) \div den)}

\* round(x, 2) for x = num/den cents, den > 0: the possible results
Round2(num, den) ==
    {q \in {Floor(num, den), Floor(num, den) + 1} : 2 * Abs(q * den - num) <= den}

\* tax_rate = data['tax'] / data['subtotal'], service_rate likewise: the quotient
tax_rate(bill_data) == [num |-> bill_data.tax, den |-> bill_data.subtotal]

service_rate(bill_data) == [num |-> bill_data.service_charge, den |-> bill_data.subtotal]

\* the body of "for item in data['items']": the item with its three new
\* keys; price + tax + service_charge is within float error of a cent value
ApportionedItem(item, bill_data) ==
    {[price |-> item.price, tax |-> t, service_charge |-> s,
      total_price |-> item.price + t + s] :
        t \in Round2(item.price * tax_rate(bill_data).num, tax_rate(bill_data).den),
        s \in Round2(item.price * service_rate(bill_data).num, service_rate(bill_data).den)}

ApportionedItems(bill_data) ==
    {its \in [1..Len(bill_data.items) -> UNION {ApportionedItem(bill_data.items[i], bill_data) :
                                              i \in 1..Len(bill_data.items)}] :
        \A i \in 1..Len(bill_data.items) : its[i] \in ApportionedItem(bill_data.items[i], bill_data)}

\* analyze_bill from "bill_data = json.loads(...)" on, bill_data its "data": the dicts it can return
analyze_bill(bill_data) ==
    IF bill_data.subtotal > 0
    THEN {[bill_data EXCEPT !.items = its] : its \in ApportionedItems(bill_data)}
    ELSE {bill_data}

\* bill_items[k] for a 0-based k, which may be negative; "IndexError" when out of range
InRange(bill_items, k) == -Len(bill_items) <= k /\ k < Len(bill_items)

PyItem(bill_items, k) == IF k >= 0 THEN bill_items[k + 1] ELSE bill_items[Len(bill_items) + k + 1]

\* str(item_index) for the key of share_ratio
StrOfInt(n) == IF n < 0 THEN <<45>> \o DecStr(-n) ELSE DecStr(n)

\* faulty variant: an item without a stated ratio counts for nothing
share_ratio_DefaultZero(person, item_index) ==
    IF "share_ratio" \in DOMAIN person /\ StrOfInt(item_index) \in DOMAIN person.share_ratio
    THEN person.share_ratio[StrOfInt(item_index)]
    ELSE 0

\* person.get('share_ratio', {}).get(str(item_index), 1.0), in hundredths
share_ratio(person, item_index) ==
    IF "share_ratio" \in DOMAIN person /\ StrOfInt(item_index) \in DOMAIN person.share_ratio
    THEN person.share_ratio[StrOfInt(item_index)]
    ELSE 100

\* the exception the loop over person['items'] raises, "ok" when none
PersonRaises(person, bill_items) ==
    IF \E j \in 1..Len(person.items) : ~InRange(bill_items, person.items[j] - 1)
    THEN "IndexError"
    ELSE IF \E j \in 1..Len(person.items) :
                "total_price" \notin DOMAIN PyItem(bill_items, person.items[j] - 1)
         THEN "KeyError"
    ELSE "ok"

RECURSIVE PersonTotal100(_, _, _)
\* "total" after the first j entries of person['items'], in hundredths of a cent
PersonTotal100(person, bill_items, j) ==
    IF j = 0 THEN 0
    ELSE PersonTotal100(person, bill_items, j - 1)
         + PyItem(bill_items, person.items[j] - 1).total_price
           * share_ratio(person, person.items[j])

\* the last entry of people_data['people'] with this person_id
LastWithId(people_data, id) ==
    people_data[CHOOSE i \in 1..Len(people_data) :
                    /\ people_data[i].person_id = id
                    /\ \A j \in (i + 1)..Len(people_data) : people_data[j].person_id # id]

\* calculate_person_totals: what it can return, or the exception it raises
calculate_person_totals(people_data, bill_items) ==
    IF \E i \in 1..Len(people_data) : PersonRaises(people_data[i], bill_items) # "ok"
    THEN {[status |-> PersonRaises(
                          people_data[CHOOSE i \in 1..Len(people_data) :
                              /\ PersonRaises(people_data[i], bill_items) # "ok"
                              /\ \A j \in 1..(i - 1) : PersonRaises(people_data[j], bill_items) = "ok"],
                          bill_items)]}
    ELSE LET ids == {people_data[i].person_id : i \in 1..Len(people_data)}
             possible(id) ==
                 Round2(PersonTotal100(LastWithId(people_data, id), bill_items,
                                       Len(LastWithId(people_data, id).items)), 100)
         IN  {[status |-> "ok", totals |-> f] :
                 f \in {g \in [ids -> UNION {possible(id) : id \in ids}] :
                           \A id \in ids : g[id] \in possible(id)}}

(***************************************************************************)
(* Inputs: what the vision model answered                                  *)
(***************************************************************************)
Prices == {1250, 350}                \* 12.50, 3.50
Subtotals == {0, 10000, 1600}        \* 0, 100.00, 16.00
Taxes == {0, 700}                    \* 0, 7.00
ServiceCharges == {0, 1000}          \* 0, 10.00

RECURSIVE SeqsUpTo(_, _)
\* the sequences over S of length at most n
SeqsUpTo(S, n) ==
    IF n = 0 THEN {<<>>}
    ELSE LET shorter == SeqsUpTo(S, n - 1)
         IN  shorter \cup {Append(s, x) : s \in {t \in shorter : Len(t) = n - 1}, x \in S}

BillData ==
    {[status |-> "ok", items |-> its, subtotal |-> st, tax |-> tx, service_charge |-> sc,
      total |-> st + tx + sc] :
        its \in SeqsUpTo({[price |-> p] : p \in Prices}, MaxItems),
        st \in Subtotals, tx \in Taxes, sc \in ServiceCharges}

\* share_ratio as the model answered it: half of item 1, or 0.33 of item 2
ShareRatioDicts == {[k \in {<<49>>} |-> 50], [k \in {<<50>>} |-> 33]}

\* the first person of people_data for a bill of n items
Persons(n) ==
    {[person_id |-> 1, items |-> its] : its \in SeqsUpTo(1..n, MaxAssigned)}
    \cup {[person_id |-> 1, items |-> its, share_ratio |-> d] :
              its \in SeqsUpTo(1..n, MaxAssigned), d \in ShareRatioDicts}

\* a second person, who had half of item 1
SecondPerson(n) ==
    [person_id |-> 2, items |-> IF n >= 1 THEN <<1>> ELSE << >>,
     share_ratio |-> [k \in {<<49>>} |-> 50]]

\* people_data['people'] for a bill of n items
PeopleData(n) ==
    {<<p>> : p \in Persons(n)} \cup {<<p, SecondPerson(n)>> : p \in Persons(n)}

(***************************************************************************)
(* Analysing a bill, then computing what each person owes                  *)
(***************************************************************************)
payNowVars == <<config, obj, request, last, data, crc_ret, history, frame>>

InitBill ==
    /\ config \in Configs
    /\ obj = NoObject
    /\ request = NoRequest
    /\ last = NoCall
    /\ data = <<>>
    /\ crc_ret = [calculate_crc |-> NotCalled, calculate_crc16 |-> NotCalled]
    /\ BeyondEncodersIdle

\* analyze_bill(image_path), the vision model's answer parsed to d; a
\* conversation analyses one bill and starts from nothing
AnalyzeBill ==
    /\ bill.status = "none"
    /\ \E d \in BillData : bill' \in analyze_bill(d)
    /\ people' = NoPeople
    /\ totals' = NoTotals
    /\ UNCHANGED payNowVars
    /\ UNCHANGED beyondBill

\* analyze_bill(image_path), the answer is no JSON: the exception is
\* re-raised as "Error analyzing bill"
AnalyzeBillFails ==
    /\ bill.status = "none"
    /\ bill' = [status |-> "error"]
    /\ people' = NoPeople
    /\ totals' = NoTotals
    /\ UNCHANGED payNowVars
    /\ UNCHANGED beyondBill

\* calculate_person_totals(people_data, bill_data['items'])
CalculatePersonTotals ==
    /\ bill.status = "ok"
    /\ \E pd \in PeopleData(Len(bill.items)) :
        /\ people' = pd
        /\ totals' \in calculate_person_totals(pd, bill.items)
    /\ UNCHANGED bill
    /\ UNCHANGED payNowVars
    /\ UNCHANGED beyondBill

NextBill == AnalyzeBill \/ AnalyzeBillFails \/ CalculatePersonTotals

SpecBill == InitBill /\ [][NextBill]_vars

(***************************************************************************)
(* C17: given a bill with subtotal = 0, analyze_bill yields for every item *)
(* a tax of 0 and a service charge of 0, the item total equal to its       *)
(* price, with no NaN and no division error.                               *)
(***************************************************************************)
C17_ZeroSubtotal ==
    (bill.status # "none" /\ "subtotal" \in DOMAIN bill /\ bill.subtotal = 0) =>
        /\ bill.status = "ok"
        /\ \A i \in 1..Len(bill.items) :
              /\ "tax" \in DOMAIN bill.items[i]
              /\ bill.items[i].tax = 0
              /\ "service_charge" \in DOMAIN bill.items[i]
              /\ bill.items[i].service_charge = 0
              /\ "total_price" \in DOMAIN bill.items[i]
              /\ bill.items[i].total_price = bill.items[i].price

\* the ratio people_data states for an entry of a person's item list, 1 when
\* none is stated (in hundredths)
StatedRatio(person, item_index) ==
    IF "share_ratio" \in DOMAIN person
       /\ \E k \in DOMAIN person.share_ratio : k = StrOfInt(item_index)
    THEN person.share_ratio[StrOfInt(item_index)]
    ELSE 100

RECURSIVE ShareSum(_, _)
\* the sum of itemTotal * shareRatio over the entries js of person's item list
ShareSum(person, js) ==
    IF js = {} THEN 0
    ELSE LET j == CHOOSE x \in js : TRUE
         IN  bill.items[person.items[j]].total_price * StatedRatio(person, person.items[j])
             + ShareSum(person, js \ {j})

\* c cents is num/den cents rounded to a cent
IsRounded(c, num, den) == 2 * Abs(c * den - num) <= den

(***************************************************************************)
(* C18: for a bill with subtotal > 0 every item gets                       *)
(* tax = price * (tax / subtotal), service = price * (service charge /     *)
(* subtotal) and total = price + tax + service, each rounded to cents;     *)
(* calculate_person_totals gives each person the sum over their assigned   *)
(* items of itemTotal * shareRatio rounded to cents, an item without a     *)
(* stated ratio counting with ratio 1.                                     *)
(***************************************************************************)
C18_Apportionment ==
    (bill.status = "ok" /\ bill.subtotal > 0) =>
        /\ \A i \in 1..Len(bill.items) :
              LET item == bill.items[i]
              IN  /\ {"tax", "service_charge", "total_price"} \subseteq DOMAIN item
                  /\ IsRounded(item.tax, item.price * bill.tax, bill.subtotal)
                  /\ IsRounded(item.service_charge, item.price * bill.service_charge, bill.subtotal)
                  /\ item.total_price = item.price + item.tax + item.service_charge
        /\ totals.status # "none" =>
              /\ totals.status = "ok"
              /\ DOMAIN totals.totals = {people[i].person_id : i \in 1..Len(people)}
              /\ \A i \in 1..Len(people) :
                    IsRounded(totals.totals[people[i].person_id],
                              ShareSum(people[i], 1..Len(people[i].items)), 100)

\* two people were charged for a bill with tax and service charge: the
\* first had half of item 1 (stated) and item 2 (no ratio stated), the
\* second half of item 1
C18_Witness ==
    /\ bill.status = "ok"
    /\ bill.subtotal = 1600 /\ bill.tax = 700 /\ bill.service_charge = 1000
    /\ Len(bill.items) = 2
    /\ totals.status = "ok"
    /\ Len(people) = 2
    /\ people[1].items = <<1, 2>>
    /\ "share_ratio" \in DOMAIN people[1]
    /\ StatedRatio(people[1], 1) = 50
    /\ StatedRatio(people[1], 2) = 100
    /\ totals.totals[1] > 0 /\ totals.totals[2] > 0

(***************************************************************************)
(* paynow_storage.py: class PayNowStorage                                  *)
(*                                                                         *)
(* A dict keeps its keys in insertion order and json.dump writes them in   *)
(* that order, so self.data is carried as a sequence of <<key, value>>     *)
(* pairs with distinct keys.  The file is the text json.dump wrote to it;  *)
(* open() and the write are taken to succeed (_save_storage swallows the   *)
(* exception of a failed write and only prints it).                        *)
(***************************************************************************)
\* the keys of a dict
Keys(d) == {d[i][1] : i \in 1..Len(d)}

\* None where a dict (a record) is the other possible value
NoneDict == [class |-> "NoneType"]

\* d.get(k) for a dict of dicts
DictGet(d, k) ==
    IF k \in Keys(d) THEN d[CHOOSE i \in 1..Len(d) : d[i][1] = k][2] ELSE NoneDict

\* d[k] = v: an existing key keeps its place, a new key goes last
DictSet(d, k, v) ==
    IF k \in Keys(d)
    THEN [i \in 1..Len(d) |-> IF d[i][1] = k THEN <<k, v>> ELSE d[i]]
    ELSE Append(d, <<k, v>>)

\* del d[k]
DictDel(d, k) == SelectSeq(d, LAMBDA e : e[1] # k)

\* '\\u{0:04x}'.format(n): lower-case hexadecimal, four digits
LowerHexDigit(d) == IF d < 10 THEN 48 + d ELSE 97 + (d - 10)

EscapeU(n) ==
    <<92, 117, LowerHexDigit(n \div 4096), LowerHexDigit((n \div 256) % 16),
      LowerHexDigit((n \div 16) % 16), LowerHexDigit(n % 16)>>

\* json.encoder.py_encode_basestring_ascii, one character: '"' and '\' get a
\* backslash, the control characters their letter or \u00XX, every character
\* outside ' '..'~' its \uXXXX, as a surrogate pair beyond U+FFFF
EscapeChar(c) ==
    IF c = 34 THEN <<92, 34>>
    ELSE IF c = 92 THEN <<92, 92>>
    ELSE IF c = 10 THEN <<92, 110>>
    ELSE IF c = 13 THEN <<92, 114>>
    ELSE IF c = 9 THEN <<92, 116>>
    ELSE IF c = 12 THEN <<92, 102>>
    ELSE IF c = 8 THEN <<92, 98>>
    ELSE IF c >= 32 /\ c <= 126 THEN <<c>>
    ELSE IF c < 65536 THEN EscapeU(c)
    ELSE EscapeU(55296 + (((c - 65536) \div 1024) % 1024))
         \o EscapeU(56320 + ((c - 65536) % 1024))

\* the characters ESCAPE_ASCII leaves as they are
PlainChars == (32..126) \ {34, 92}

\* how many characters at the start of s stay as they are
PlainLen(s) ==
    CHOOSE n \in 0..Len(s) :
        /\ n = Len(s) \/ s[n + 1] \notin PlainChars
        /\ \A k \in 1..n : s[k] \in PlainChars

RECURSIVE EscapeChars(_)
\* ESCAPE_ASCII.sub(replace, s): runs of plain characters are copied, every
\* other character is replaced
EscapeChars(s) ==
    IF s = <<>> THEN <<>>
    ELSE IF PlainLen(s) > 0
    THEN SubSeq(s, 1, PlainLen(s)) \o EscapeChars(SubSeq(s, PlainLen(s) + 1, Len(s)))
    ELSE EscapeChar(Head(s)) \o EscapeChars(Tail(s))

\* a str as json.dump writes it
JsonString(s) == <<34>> \o EscapeChars(s) \o <<34>>

\* {'phone': ..., 'name': ...} as json.dump(indent=2) writes it one level down
JsonEntry(v) ==
    <<123, 10>>
    \o <<32, 32, 32, 32>> \o JsonString(<<112,104,111,110,101>>) \o <<58, 32>>
    \o JsonString(v.phone) \o <<44, 10>>
    \o <<32, 32, 32, 32>> \o JsonString(<<110,97,109,101>>) \o <<58, 32>>
    \o JsonString(v.name) \o <<10>>
    \o <<32, 32, 125>>

RECURSIVE JsonMembers(_)
JsonMembers(d) ==
    IF d = <<>> THEN <<>>
    ELSE <<32, 32>> \o JsonString(d[1][1]) \o <<58, 32>> \o JsonEntry(d[1][2])
         \o (IF Len(d) > 1 THEN <<44, 10>> ELSE <<10>>)
         \o JsonMembers(Tail(d))

\* json.dump(self.data, f, indent=2)
json_dump(d) == IF d = <<>> THEN <<123, 125>> ELSE <<123, 10>> \o JsonMembers(d) \o <<125>>

(***************************************************************************)
(* json.load, for the texts a storage file holds here: those json.dump     *)
(* wrote, with any JSON whitespace between the tokens, and texts that are  *)
(* no JSON.  The text is read token by token: a string gives the str it    *)
(* stands for, an integer gives its text, '{', '}', ':' and ',' give       *)
(* themselves, anything else is bad; next is the index after the token.    *)
(***************************************************************************)
Bad == [ok |-> FALSE, val |-> <<>>]

BadToken == [kind |-> "bad", val |-> <<>>, next |-> 0]

Whitespace == {32, 9, 10, 13}

\* t[i], or -1 past the end of t
At(t, i) == IF i >= 1 /\ i <= Len(t) THEN t[i] ELSE -1

\* the first index from i on that holds no whitespace
SkipWs(t, i) ==
    CHOOSE j \in i..(Len(t) + 1) :
        /\ At(t, j) \notin Whitespace
        /\ \A k \in i..(j - 1) : t[k] \in Whitespace

HexVal(c) ==
    IF c \in 48..57 THEN c - 48
    ELSE IF c \in 97..102 THEN c - 87
    ELSE IF c \in 65..70 THEN c - 55
    ELSE -1

\* the code unit of the \uXXXX at t[i..i+5], -1 when there is none
CodeUnit(t, i) ==
    IF At(t, i) # 92 \/ At(t, i + 1) # 117 \/ \E k \in (i + 2)..(i + 5) : HexVal(At(t, k)) < 0
    THEN -1
    ELSE 4096 * HexVal(t[i + 2]) + 256 * HexVal(t[i + 3]) + 16 * HexVal(t[i + 4]) + HexVal(t[i + 5])

\* the character a one-letter escape stands for, -1 for no such escape
SimpleEscape(c) ==
    CASE c = 34 -> 34 [] c = 92 -> 92 [] c = 47 -> 47 [] c = 110 -> 10
      [] c = 114 -> 13 [] c = 116 -> 9 [] c = 102 -> 12 [] c = 98 -> 8 [] OTHER -> -1

\* STRINGCHUNK at t[i]: the first index from i on that holds '"', a
\* backslash or a control character
ChunkEnd(t, i) ==
    CHOOSE j \in i..(Len(t) + 1) :
        /\ j = Len(t) + 1 \/ t[j] \in {34, 92} \/ t[j] < 32
        /\ \A k \in i..(j - 1) : t[k] \notin {34, 92} /\ t[k] >= 32

RECURSIVE ScanString(_, _, _)
\* json.decoder.py_scanstring from t[i] on, the opening '"' read and acc the
\* characters read so far: up to the closing '"'
ScanString(t, i, acc) ==
    IF i > Len(t) \/ At(t, i) < 32 THEN BadToken
    ELSE IF t[i] = 34 THEN [kind |-> "str", val |-> acc, next |-> i + 1]
    ELSE IF t[i] # 92 THEN ScanString(t, ChunkEnd(t, i), acc \o SubSeq(t, i, ChunkEnd(t, i) - 1))
    ELSE IF At(t, i + 1) # 117
    THEN IF SimpleEscape(At(t, i + 1)) < 0 THEN BadToken
         ELSE ScanString(t, i + 2, Append(acc, SimpleEscape(At(t, i + 1))))
    ELSE IF CodeUnit(t, i) < 0 THEN BadToken
    ELSE IF CodeUnit(t, i) \in 55296..56319 /\ CodeUnit(t, i + 6) \in 56320..57343
    THEN ScanString(t, i + 12,
                    Append(acc, 65536 + (CodeUnit(t, i) - 55296) * 1024
                                      + (CodeUnit(t, i + 6) - 56320)))
    ELSE ScanString(t, i + 6, Append(acc, CodeUnit(t, i)))

\* the first index from i on that holds no decimal digit
DigitsEnd(t, i) ==
    CHOOSE j \in i..(Len(t) + 1) :
        /\ At(t, j) \notin 48..57
        /\ \A k \in i..(j - 1) : t[k] \in 48..57

\* json.scanner's NUMBER_RE at t[i], for integers: an optional '-', then "0"
\* or digits that start with none; val is the text of the number
NumberToken(t, i) ==
    LET first == IF t[i] = 45 THEN i + 1 ELSE i
    IN  IF DigitsEnd(t, first) = first THEN BadToken
        ELSE IF t[first] = 48
        THEN [kind |-> "num", val |-> SubSeq(t, i, first), next |-> first + 1]
        ELSE [kind |-> "num", val |-> SubSeq(t, i, DigitsEnd(t, first) - 1),
              next |-> DigitsEnd(t, first)]

\* the token that starts at t[i], which is no whitespace
Token(t, i) ==
    IF t[i] \in {123, 125, 58, 44} THEN [kind |-> "punct", val |-> <<t[i]>>, next |-> i + 1]
    ELSE IF t[i] = 34 THEN ScanString(t, i + 1, <<>>)
    ELSE IF t[i] = 45 \/ t[i] \in 48..57 THEN NumberToken(t, i)
    ELSE BadToken

RECURSIVE TokensFrom(_, _)
\* the tokens of t from the index i on, which holds no whitespace; a bad
\* token is the last one
TokensFrom(t, i) ==
    IF i > Len(t) THEN <<>>
    ELSE LET token == Token(t, i)
         IN  IF token.kind = "bad" THEN <<BadToken>>
             ELSE <<token>> \o TokensFrom(t, SkipWs(t, token.next))

Tokens(t) == TokensFrom(t, SkipWs(t, 1))

S_phone == <<112, 104, 111, 110, 101>>
S_name == <<110, 97, 109, 101>>

IsPunct(tk, k, c) == tk[k].kind = "punct" /\ tk[k].val = <<c>>

\* whether the 11 tokens from tk[s] on read "key": {"phone": "...", "name":
\* "..."}, the two members in either order
IsEntry(tk, s) ==
    /\ \A k \in {s, s + 3, s + 5, s + 7, s + 9} : tk[k].kind = "str"
    /\ \A k \in {s + 1, s + 4, s + 8} : IsPunct(tk, k, 58)
    /\ IsPunct(tk, s + 2, 123)
    /\ IsPunct(tk, s + 6, 44)
    /\ IsPunct(tk, s + 10, 125)
    /\ {tk[s + 3].val, tk[s + 7].val} = {S_phone, S_name}

\* the value of the entry whose tokens start at tk[s]
EntryValue(tk, s) ==
    [phone |-> IF tk[s + 3].val = S_phone THEN tk[s + 5].val ELSE tk[s + 9].val,
     name |-> IF tk[s + 3].val = S_name THEN tk[s + 5].val ELSE tk[s + 9].val]

\* whether tk reads {} or { entry, entry, ... }
IsObject(tk) ==
    /\ Len(tk) >= 2
    /\ IsPunct(tk, 1, 123)
    /\ IsPunct(tk, Len(tk), 125)
    /\ Len(tk) = 2 \/ Len(tk) % 12 = 1
    /\ \A e \in 0..((Len(tk) - 13) \div 12) :
        /\ IsEntry(tk, 2 + 12 * e)
        /\ 12 * e + 13 < Len(tk) => IsPunct(tk, 12 * e + 13, 44)

RECURSIVE EntriesFrom(_, _, _)
\* the dict of the entries from the one numbered e on (from 0), added to d
\* in the order read; a key read twice keeps its last value
EntriesFrom(tk, e, d) ==
    IF 12 * e + 2 >= Len(tk) THEN d
    ELSE EntriesFrom(tk, e + 1, DictSet(d, tk[2 + 12 * e].val, EntryValue(tk, 2 + 12 * e)))

\* json.load(f) for the text t: ok is FALSE where it raises JSONDecodeError
json_load(t) ==
    LET tk == Tokens(t)
    IN  IF IsObject(tk) THEN [ok |-> TRUE, val |-> EntriesFrom(tk, 0, <<>>)] ELSE Bad

\* __init__(storage_file): self.data = self._load_storage()
_load_storage(f) ==
    IF ~f.exists THEN <<>>
    ELSE LET loaded == json_load(f.text)
         IN  IF loaded.ok THEN loaded.val ELSE <<>>

PayNowStorage_init(f) == [class |-> "PayNowStorage", data |-> _load_storage(f)]

\* _save_storage: the file after the write
_save_storage(self) == [exists |-> TRUE, text |-> json_dump(self.data)]

\* get_user_paynow(user_id)
get_user_paynow(self, user_id) == DictGet(self.data, StrOfInt(user_id))

\* faulty variant: the entry is stored under the name, not under str(user_id)
save_user_paynow_KeyedByName(self, user_id, phone, name) ==
    [self EXCEPT !.data = DictSet(self.data, name, [phone |-> phone, name |-> name])]

\* save_user_paynow(user_id, phone, name): the instance after the assignment
save_user_paynow(self, user_id, phone, name) ==
    [self EXCEPT !.data = DictSet(self.data, StrOfInt(user_id), [phone |-> phone, name |-> name])]

\* delete_user_paynow(user_id): the instance after the del, unchanged without the key
delete_user_paynow(self, user_id) ==
    [self EXCEPT !.data = DictDel(self.data, StrOfInt(user_id))]

(***************************************************************************)
(* bot.py: the conversation of BillSplitterBot, from /makansplit over the  *)
(* bill photo, the recipient information and the even split to the payment *)
(* requests.  One user talks to the bot in one chat.  A dict with fixed     *)
(* str keys (context.user_data) is a record whose DOMAIN is the set of its *)
(* keys; a dict whose order matters (totals) is a sequence of <<key,       *)
(* value>> pairs.  Messages the bot sends change nothing and are left out. *)
(* The choices mode_manual and mode_photo lead to handlers that are not    *)
(* part of this specification.                                             *)
(***************************************************************************)
\* d[k] = v, k in d, d.get(k)
Put(d, k, v) == [x \in DOMAIN d \cup {k} |-> IF x = k THEN v ELSE d[x]]

Has(d, k) == k \in DOMAIN d

Get(d, k) == IF Has(d, k) THEN d[k] ELSE None

\* whether a str (or None) counts as true
Truthy(x) == x # None /\ x # <<>>

\* the characters str.strip() removes
PyWhitespace == {9, 10, 11, 12, 13, 28, 29, 30, 31, 32, 133, 160}

\* s.strip()
Strip(s) ==
    IF \A k \in 1..Len(s) : s[k] \in PyWhitespace THEN <<>>
    ELSE SubSeq(s, CHOOSE a \in 1..Len(s) :
                       s[a] \notin PyWhitespace /\ \A k \in 1..(a - 1) : s[k] \in PyWhitespace,
                   CHOOSE b \in 1..Len(s) :
                       s[b] \notin PyWhitespace /\ \A k \in (b + 1)..Len(s) : s[k] \in PyWhitespace)

\* the indices of '|' in s
Bars(s) == {k \in 1..Len(s) : s[k] = 124}

\* s.split('|') for a str with exactly one '|'
SplitBar(s) ==
    LET b == CHOOSE k \in Bars(s) : TRUE
    IN  <<SubSeq(s, 1, b - 1), SubSeq(s, b + 1, Len(s))>>

\* s.startswith('+')
StartsWithPlus(s) == Len(s) >= 1 /\ s[1] = 43

\* s[:15]
Slice15(s) == SubSeq(s, 1, IF Len(s) < 15 THEN Len(s) ELSE 15)

\* generate_qr_code(amount, reference, person_name): the reference it hands
\* to generate_paynow_string
full_reference(reference, person_name) ==
    IF person_name # <<>> /\ reference # <<>> THEN reference \o <<32, 45, 32>> \o person_name
    ELSE IF person_name # <<>> THEN person_name
    ELSE reference

(***************************************************************************)
(* Inputs of the conversation                                              *)
(***************************************************************************)
S_there == <<116, 104, 101, 114, 101>>
S_User == <<85, 115, 101, 114>>
S_Restaurant == <<82, 101, 115, 116, 97, 117, 114, 97, 110, 116>>
S_split == <<32, 115, 112, 108, 105, 116>>

\* update.effective_user and update.effective_chat
EffectiveUser == [id |-> 111, first_name |-> <<65, 110, 110>>]
ChatId == 7

\* the known members of the chat, the user who talks among them
ChatMembers ==
    <<EffectiveUser, [id |-> 222, first_name |-> <<66, 111, 98>>]>>

\* the text messages a user types for the recipient:
\* "+6591234567 | John Doe", "+65-9123 4567 | John Doe", "+ | John",
\* "91234567 | John Doe", "hello", "+65 | a | b", "+6591234567 | "
RecipientTexts ==
    { <<43, 54, 53, 57, 49, 50, 51, 52, 53, 54, 55, 32, 124, 32, 74, 111, 104, 110, 32, 68, 111, 101>>,
      <<43, 54, 53, 45, 57, 49, 50, 51, 32, 52, 53, 54, 55, 32, 124, 32, 74, 111, 104, 110, 32, 68, 111, 101>>,
      <<43, 32, 124, 32, 74, 111, 104, 110>>,
      <<57, 49, 50, 51, 52, 53, 54, 55, 32, 124, 32, 74, 111, 104, 110, 32, 68, 111, 101>>,
      <<104, 101, 108, 108, 111>>,
      <<43, 54, 53, 32, 124, 32, 97, 32, 124, 32, 98>>,
      <<43, 54, 53, 57, 49, 50, 51, 52, 53, 54, 55, 32, 124, 32>> }

\* the contacts a user shares: Telegram gives the phone number with or
\* without "+", a first name and maybe a last name
Contacts ==
    { [phone_number |-> <<54, 53, 57, 49, 50, 51, 52, 53, 54, 55>>,
       first_name |-> <<74, 111, 104, 110>>, last_name |-> <<68, 111, 101>>],
      [phone_number |-> <<43, 54, 53, 57, 49, 50, 51, 52, 53, 54, 55>>,
       first_name |-> <<>>, last_name |-> None] }

\* update.message of collect_recipient_info: a shared contact or a text
RecipientMessages ==
    {[contact |-> c, text |-> None] : c \in Contacts}
    \cup {[contact |-> NoneDict, text |-> t] : t \in RecipientTexts}

\* what the vision model answered for the bill photo
ChatItemLists == {<< >>, <<[price |-> 1250]>>, <<[price |-> 1250], [price |-> 350]>>}

\* a bill of one dish at 12.50 with 9% GST, 13.63 in all: a total that two
\* people cannot share in whole cents
GstBill ==
    [status |-> "ok", items |-> <<[price |-> 1250]>>, subtotal |-> 1250, tax |-> 113,
     service_charge |-> 0, total |-> 1363]

BillPhotos ==
    {d \in BillData : d.tax = 700 /\ d.service_charge = 0 /\ d.items \in ChatItemLists}
    \cup {GstBill}

\* user_paynow.json when the bot starts: absent, no JSON ("{"), or written
\* by an earlier run for the user who talks
SavedEarlier ==
    <<<<StrOfInt(EffectiveUser.id),
        [phone |-> <<43, 54, 53, 57, 56, 55, 54, 53, 52, 51, 50>>,
         name |-> <<65, 110, 110, 32, 84, 97, 110>>]>>>>

InitialFiles ==
    {NoFile, [exists |-> TRUE, text |-> <<123>>], [exists |-> TRUE, text |-> json_dump(SavedEarlier)]}

(***************************************************************************)
(* The handlers                                                            *)
(***************************************************************************)
\* an update went to a handler: the handler, and what the update held
HandledUpdate(handler, update) ==
    /\ request' = update
    /\ last' = [op |-> handler, status |-> "ok", ret |-> <<>>]
    /\ UNCHANGED <<config, obj, data, crc_ret, history, frame>>
    /\ UNCHANGED other_chat

\* the same for a command, a callback whose data is a fixed word, or a
\* message of which only the kind matters
Handled(handler, data_) == HandledUpdate(handler, [data |-> data_])

\* faulty variant: the session is kept, only chat_id is set again
Makansplit_KeepsSession ==
    /\ user_data' = Put(user_data, "chat_id", ChatId)
    /\ state' = "WAITING_BILL_PHOTO"
    /\ sent' = << >>
    /\ posted' = NoPosts
    /\ UNCHANGED <<bill, people, totals, paynow_storage, file>>
    /\ Handled("makansplit", "/makansplit")
    /\ UNCHANGED pairings_file

\* /makansplit: the entry point, a handler of every state and a fallback
Makansplit ==
    /\ user_data' = [chat_id |-> ChatId]
    /\ state' = "WAITING_BILL_PHOTO"
    /\ sent' = << >>
    /\ posted' = NoPosts
    /\ UNCHANGED <<bill, people, totals, paynow_storage, file>>
    /\ Handled("makansplit", "/makansplit")
    /\ UNCHANGED pairings_file

\* receive_bill_photo: analyze_bill returns the bill, or raises
ReceiveBillPhoto ==
    /\ state = "WAITING_BILL_PHOTO"
    /\ \/ \E d \in BillPhotos :
            /\ bill' \in analyze_bill(d)
            /\ user_data' = Put(user_data, "bill_data", bill')
            /\ state' = "COLLECTING_RECIPIENT_INFO"
       \/ /\ bill' = [status |-> "error"]
          /\ UNCHANGED <<user_data, state>>
    /\ UNCHANGED <<people, totals, sent, paynow_storage, file>>
    /\ Handled("receive_bill_photo", "photo")
    /\ UNCHANGED <<pairings_file, posted>>

\* handle_paynow_confirmation: "paynow_confirm" takes the stored recipient,
\* any other "paynow_..." asks for a new one
HandlePaynowConfirmation ==
    /\ state = "COLLECTING_RECIPIENT_INFO"
    /\ \E query \in {"paynow_confirm", "paynow_new"} :
        /\ Handled("handle_paynow_confirmation", query)
        /\ LET saved_paynow == get_user_paynow(paynow_storage, EffectiveUser.id)
           IN  IF query = "paynow_confirm" /\ saved_paynow # NoneDict
               THEN /\ user_data' = Put(Put(user_data, "paynow_phone", saved_paynow.phone),
                                        "paynow_name", saved_paynow.name)
                    /\ state' = "CHOOSING_SPLIT_MODE"
               ELSE UNCHANGED <<user_data, state>>
    /\ UNCHANGED <<bill, people, totals, sent, paynow_storage, file>>
    /\ UNCHANGED <<pairings_file, posted>>

\* the recipient collect_recipient_info takes from a message: its phone and
\* name, or that the message is turned down
RecipientOf(message) ==
    IF message.contact # NoneDict
    THEN LET phone == IF StartsWithPlus(message.contact.phone_number)
                      THEN message.contact.phone_number
                      ELSE <<43>> \o message.contact.phone_number
             name == Strip(Or(message.contact.first_name, <<>>) \o <<32>>
                           \o Or(message.contact.last_name, <<>>))
         IN  [accepted |-> TRUE, phone |-> phone,
              name |-> IF name = <<>> THEN Or(EffectiveUser.first_name, S_User) ELSE name]
    ELSE LET message_text == Strip(message.text)
             parts == SplitBar(message_text)
         IN  IF Cardinality(Bars(message_text)) # 1
             THEN [accepted |-> FALSE]
             ELSE IF ~StartsWithPlus(Strip(parts[1])) \/ Strip(parts[2]) = <<>>
             THEN [accepted |-> FALSE]
             ELSE [accepted |-> TRUE, phone |-> Strip(parts[1]), name |-> Strip(parts[2])]

\* collect_recipient_info: an accepted recipient goes to the session and to
\* the store, which writes its file
CollectRecipientInfo ==
    /\ state = "COLLECTING_RECIPIENT_INFO"
    /\ \E message \in RecipientMessages :
        /\ HandledUpdate("collect_recipient_info", message)
        /\ LET r == RecipientOf(message)
           IN  IF r.accepted
               THEN /\ user_data' = Put(Put(user_data, "paynow_phone", r.phone),
                                        "paynow_name", r.name)
                    /\ paynow_storage' = save_user_paynow(paynow_storage, EffectiveUser.id,
                                                           r.phone, r.name)
                    /\ file' = _save_storage(paynow_storage')
                    /\ state' = "CHOOSING_SPLIT_MODE"
               ELSE UNCHANGED <<user_data, paynow_storage, file, state>>
    /\ UNCHANGED <<bill, people, totals, sent>>
    /\ UNCHANGED <<pairings_file, posted>>

\* d.get(k, [])
GetList(d, k) == IF Has(d, k) THEN d[k] ELSE << >>

\* what a button of the tagging keyboard sends: tag_<id>, untag_<id>, tagging_done
TaggingQueries ==
    {[cmd |-> c, user_id |-> ChatMembers[i].id] : c \in {"tag", "untag"}, i \in 1..Len(ChatMembers)}
    \cup {[cmd |-> "tagging_done", user_id |-> 0]}

\* list.remove(x) for an x the list holds: the first x goes, the rest stays
ListRemove(s, x) ==
    LET first == CHOOSE i \in 1..Len(s) : s[i] = x /\ \A j \in 1..(i - 1) : s[j] # x
    IN  SubSeq(s, 1, first - 1) \o SubSeq(s, first + 1, Len(s))

\* {user_id: per_person for user_id in tagged_users}
EvenTotals(tagged_users, per_person) ==
    [i \in 1..Len(tagged_users) |-> <<tagged_users[i], per_person>>]

\* {member['id']: member for member in chat_members}
UserInfo(chat_members) == [i \in 1..Len(chat_members) |-> <<chat_members[i].id, chat_members[i]>>]

\* faulty variant: the bill is divided by the members of the chat, not by
\* the users tagged
tagging_done_PerMember(ud) ==
    IF Len(ud.tagged_users) = 0 \/ ~Has(ud, "bill_data")
    THEN {[state |-> "TAGGING_USERS", user_data |-> ud]}
    ELSE {[state |-> "CONFIRMING",
           user_data |-> Put(Put(Put(ud, "totals", EvenTotals(ud.tagged_users, per_person)),
                                 "matches",
                                 [i \in 1..Len(ud.tagged_users) |-> <<i, ud.tagged_users[i]>>]),
                             "user_info", UserInfo(Get(ud, "chat_members")))] :
          per_person \in Round2(ud.bill_data.total, Len(Get(ud, "chat_members")))}

\* faulty variant: "Done" with nobody tagged goes on to the confirmation
tagging_done_Unchecked(ud) ==
    {[state |-> "CONFIRMING",
      user_data |-> Put(Put(Put(ud, "totals", EvenTotals(ud.tagged_users, ud.bill_data.total)),
                            "matches", << >>),
                        "user_info", UserInfo(Get(ud, "chat_members")))]}

\* handle_user_tagging on 'tagging_done': the state it returns and the
\* session it leaves; without a bill in the session it raises KeyError
\* and the state stays
tagging_done(ud) ==
    IF Len(ud.tagged_users) = 0 \/ ~Has(ud, "bill_data")
    THEN {[state |-> "TAGGING_USERS", user_data |-> ud]}
    ELSE {[state |-> "CONFIRMING",
           user_data |-> Put(Put(Put(ud, "totals", EvenTotals(ud.tagged_users, per_person)),
                                 "matches",
                                 [i \in 1..Len(ud.tagged_users) |-> <<i, ud.tagged_users[i]>>]),
                             "user_info", UserInfo(Get(ud, "chat_members")))] :
          per_person \in Round2(ud.bill_data.total, Len(ud.tagged_users))}

\* handle_user_tagging; without tagged_users in the session it raises
\* KeyError and nothing changes
HandleUserTagging ==
    /\ state = "TAGGING_USERS"
    /\ \E query \in TaggingQueries :
      /\ HandledUpdate("handle_user_tagging", query)
      /\
        LET tagged_users == GetList(user_data, "tagged_users")
            isTagged == \E i \in 1..Len(tagged_users) : tagged_users[i] = query.user_id
        IN  CASE ~Has(user_data, "tagged_users") -> UNCHANGED <<user_data, state>>
              [] Has(user_data, "tagged_users") /\ query.cmd = "tag" ->
                    /\ user_data' = IF isTagged THEN user_data
                                    ELSE Put(user_data, "tagged_users",
                                             Append(tagged_users, query.user_id))
                    /\ UNCHANGED state
              [] Has(user_data, "tagged_users") /\ query.cmd = "untag" ->
                    /\ user_data' = IF isTagged
                                    THEN Put(user_data, "tagged_users",
                                             ListRemove(tagged_users, query.user_id))
                                    ELSE user_data
                    /\ UNCHANGED state
              [] Has(user_data, "tagged_users") /\ query.cmd = "tagging_done" ->
                    \E done \in tagging_done(user_data) :
                        /\ user_data' = done.user_data
                        /\ state' = done.state
    /\ UNCHANGED <<bill, people, totals, sent, paynow_storage, file>>
    /\ UNCHANGED <<pairings_file, posted>>

(***************************************************************************)
(* Manual split: the items are assigned one by one                         *)
(*                                                                         *)
(* manual_assignments is a dict {item_index: [user ids]} and is carried as *)
(* a sequence of <<item_index, user_ids>> pairs in insertion order.  A     *)
(* handler that raises leaves the conversation in its state, and what it   *)
(* wrote to the session before it raised stays written.                   *)
(***************************************************************************)
MaxIndex == 3        \* the presses of "Skip item" and "Next item" that are followed

\* d[k] of a dict that has the key k
Lookup(d, k) == d[CHOOSE i \in 1..Len(d) : d[i][1] = k][2]

\* x in a list
InList(list, x) == \E i \in 1..Len(list) : list[i] = x

\* the outcome of a handler: the state it returns, or that it raised, and
\* the session it leaves
Returns(state_, ud) == [raised |-> FALSE, state |-> state_, user_data |-> ud]
Raises(ud) == [raised |-> TRUE, state |-> "none", user_data |-> ud]

RECURSIVE FirstSeen(_, _, _, _)
\* the keys of totals in the order the loops of show_manual_split_summary
\* create them: user ids by first appearance, from entry i, place j on
FirstSeen(assignments, i, j, seen) ==
    IF i > Len(assignments) THEN seen
    ELSE IF j > Len(assignments[i][2]) THEN FirstSeen(assignments, i + 1, 1, seen)
    ELSE FirstSeen(assignments, i, j + 1,
                   IF InList(seen, assignments[i][2][j]) THEN seen
                   ELSE Append(seen, assignments[i][2][j]))

\* faulty variant: an item is charged in full to each of its assignees
share_per_person_Unshared(item, user_ids) == item.total_price * 2

\* share_per_person = item['total_price'] / len(user_ids), in half cents
share_per_person(item, user_ids) == (item.total_price * 2) \div Len(user_ids)

RECURSIVE share_per_person_sum(_, _, _, _)
\* totals[user_id] before rounding, in half cents, after the first i
\* entries of assignments
share_per_person_sum(items, assignments, user_id, i) ==
    IF i = 0 THEN 0
    ELSE share_per_person_sum(items, assignments, user_id, i - 1)
         + (IF InList(assignments[i][2], user_id)
            THEN share_per_person(items[assignments[i][1] + 1], assignments[i][2])
            ELSE 0)

\* show_manual_split_summary: items[item_index] raises IndexError for an
\* index past the bill, item['total_price'] KeyError for an item that has
\* no total; the shares are carried in half cents, the members being two
show_manual_split_summary(ud) ==
    LET items == ud.bill_data.items
        assignments == ud.manual_assignments
        charged == {i \in 1..Len(assignments) : Len(assignments[i][2]) > 0}
        order == FirstSeen(assignments, 1, 1, << >>)
        possible(user_id) == Round2(share_per_person_sum(items, assignments, user_id, Len(assignments)), 2)
    IN  IF \E i \in charged : \/ assignments[i][1] >= Len(items)
                              \/ "total_price" \notin DOMAIN items[assignments[i][1] + 1]
        THEN {Raises(ud)}
        ELSE {Returns("CONFIRMING",
                      Put(Put(Put(ud, "totals", [u \in 1..Len(order) |-> <<order[u], amount[u]>>]),
                              "user_info", UserInfo(GetList(ud, "chat_members"))),
                          "matches", [u \in 1..Len(order) |-> <<u, order[u]>>])) :
                 amount \in {g \in [1..Len(order) -> UNION {possible(order[u]) : u \in 1..Len(order)}] :
                                \A u \in 1..Len(order) : g[u] \in possible(order[u])}}

\* start_manual_assignment: KeyError without a bill in the session, the
\* summary after the last item, else the members and an empty assignment
\* for the item, and its keyboard
start_manual_assignment(ud) ==
    IF ~Has(ud, "bill_data") THEN {Raises(ud)}
    ELSE IF ud.current_item_index >= Len(ud.bill_data.items)
    THEN show_manual_split_summary(ud)
    ELSE {Returns("MANUAL_ASSIGNMENT",
                  LET with_members == IF Has(ud, "chat_members") THEN ud
                                      ELSE Put(ud, "chat_members", ChatMembers)
                  IN  IF ud.current_item_index \in Keys(ud.manual_assignments)
                      THEN with_members
                      ELSE Put(with_members, "manual_assignments",
                               Append(ud.manual_assignments, <<ud.current_item_index, << >> >>)))}

\* refresh_manual_assignment: the keyboard of the current item again
refresh_manual_assignment(ud) ==
    IF \/ ud.current_item_index >= Len(ud.bill_data.items)
       \/ ud.current_item_index \notin Keys(ud.manual_assignments)
    THEN Raises(ud)
    ELSE Returns("MANUAL_ASSIGNMENT", ud)

\* what a button of an assignment keyboard sends: assign_<i>_<id>,
\* unassign_<i>_<id>, select_all_<i>, deselect_all_<i>, skip_item_<i>,
\* next_item_<i>; the keyboards of earlier bills of the chat stay in the
\* chat, so <i> is any index of a bill
ItemIndexes == {0, 1}

ManualQueries ==
    {[cmd |-> c, item_index |-> i, user_id |-> ChatMembers[m].id] :
        c \in {"assign", "unassign"}, i \in ItemIndexes, m \in 1..Len(ChatMembers)}
    \cup {[cmd |-> c, item_index |-> i, user_id |-> 0] :
        c \in {"select_all", "deselect_all", "skip_item", "next_item"}, i \in ItemIndexes}

\* faulty variant: "assign" adds the user whether or not the item has them
handle_manual_assignment_AssignAgain(ud, query) ==
    LET assignments == ud.manual_assignments
        set(user_ids) == Put(ud, "manual_assignments", DictSet(assignments, query.item_index, user_ids))
        next == Put(ud, "current_item_index", ud.current_item_index + 1)
    IN  CASE query.cmd \in {"assign", "unassign"} ->
                IF query.item_index \notin Keys(assignments) THEN {Raises(ud)}
                ELSE IF query.cmd = "assign"
                THEN {refresh_manual_assignment(
                          set(Append(Lookup(assignments, query.item_index), query.user_id)))}
                ELSE {refresh_manual_assignment(
                          IF InList(Lookup(assignments, query.item_index), query.user_id)
                          THEN set(ListRemove(Lookup(assignments, query.item_index), query.user_id))
                          ELSE ud)}
          [] query.cmd = "select_all" ->
                {refresh_manual_assignment(
                     set([m \in 1..Len(ud.chat_members) |-> ud.chat_members[m].id]))}
          [] query.cmd = "deselect_all" -> {refresh_manual_assignment(set(<< >>))}
          [] query.cmd = "skip_item" -> start_manual_assignment(next)
          [] query.cmd = "next_item" ->
                IF ud.current_item_index \notin Keys(assignments) THEN {Raises(ud)}
                ELSE start_manual_assignment(next)

\* handle_manual_assignment
handle_manual_assignment(ud, query) ==
    LET assignments == ud.manual_assignments
        set(user_ids) == Put(ud, "manual_assignments", DictSet(assignments, query.item_index, user_ids))
        next == Put(ud, "current_item_index", ud.current_item_index + 1)
    IN  CASE query.cmd \in {"assign", "unassign"} ->
                IF query.item_index \notin Keys(assignments) THEN {Raises(ud)}
                ELSE IF query.cmd = "assign"
                THEN {refresh_manual_assignment(
                          IF InList(Lookup(assignments, query.item_index), query.user_id) THEN ud
                          ELSE set(Append(Lookup(assignments, query.item_index), query.user_id)))}
                ELSE {refresh_manual_assignment(
                          IF InList(Lookup(assignments, query.item_index), query.user_id)
                          THEN set(ListRemove(Lookup(assignments, query.item_index), query.user_id))
                          ELSE ud)}
          [] query.cmd = "select_all" ->
                {refresh_manual_assignment(
                     set([m \in 1..Len(ud.chat_members) |-> ud.chat_members[m].id]))}
          [] query.cmd = "deselect_all" -> {refresh_manual_assignment(set(<< >>))}
          [] query.cmd = "skip_item" -> start_manual_assignment(next)
          [] query.cmd = "next_item" ->
                IF ud.current_item_index \notin Keys(assignments) THEN {Raises(ud)}
                ELSE start_manual_assignment(next)

\* handle_manual_assignment, the only handler of callbacks in MANUAL_ASSIGNMENT
HandleManualAssignment ==
    /\ state = "MANUAL_ASSIGNMENT"
    /\ \E query \in ManualQueries :
        /\ query.cmd \in {"skip_item", "next_item"} => user_data.current_item_index < MaxIndex
        /\ HandledUpdate("handle_manual_assignment", query)
        /\ \E outcome \in handle_manual_assignment(user_data, query) :
            /\ user_data' = outcome.user_data
            /\ state' = IF outcome.raised THEN state ELSE outcome.state
    /\ UNCHANGED <<bill, people, totals, sent, paynow_storage, file>>
    /\ UNCHANGED <<pairings_file, posted>>

\* handle_split_mode_choice, start_user_tagging and start_manual_assignment
\* included;
\* a callback that is none of the three modes leaves everything as it is
HandleSplitModeChoice ==
    /\ state = "CHOOSING_SPLIT_MODE"
    /\ \E query \in {"mode_even", "mode_manual", "mode_photo", "tagging_done"} :
        /\ Handled("handle_split_mode_choice", query)
        /\ CASE query = "mode_even" ->
                /\ user_data' =
                       Put(Put(Put(user_data, "split_mode", "even"),
                               "tagged_users", IF Has(user_data, "tagged_users")
                                               THEN user_data.tagged_users ELSE << >>),
                           "chat_members", ChatMembers)
                /\ state' = "TAGGING_USERS"
             [] query = "mode_manual" ->
                \E outcome \in start_manual_assignment(
                                    Put(Put(Put(user_data, "split_mode", "manual"),
                                            "manual_assignments", << >>),
                                        "current_item_index", 0)) :
                    /\ user_data' = outcome.user_data
                    /\ state' = IF outcome.raised THEN state ELSE outcome.state
             [] query = "mode_photo" ->
                /\ user_data' = Put(user_data, "split_mode", "photo")
                /\ state' = "WAITING_GROUP_PHOTO"
             [] OTHER -> UNCHANGED <<user_data, state>>
    /\ UNCHANGED <<bill, people, totals, sent, paynow_storage, file>>
    /\ UNCHANGED <<pairings_file, posted>>

S_Person == <<80, 101, 114, 115, 111, 110, 32>>

\* context.user_data.get('split_mode', 'photo')
split_mode_of(ud) == IF Has(ud, "split_mode") THEN ud.split_mode ELSE "photo"

\* matches.get(person_id), None carried as 0
matched_user(ud, person_id) ==
    IF Has(ud, "matches") /\ person_id \in Keys(ud.matches) THEN Lookup(ud.matches, person_id) ELSE 0

\* send_payment_requests: the generate_qr_code calls it makes, none when
\* the recipient is missing; one per key of totals in the even and the
\* manual split, one per person of the photo otherwise
send_payment_requests(ud) ==
    LET paynow_phone == Get(ud, "paynow_phone")
        paynow_name == Get(ud, "paynow_name")
        paynow_generator == PayNowGenerator_init(paynow_phone, paynow_name)
        restaurant == S_Restaurant        \* bill_data.get('restaurant', 'Restaurant')
        user_name(user_id) ==
            LET member == DictGet(GetList(ud, "user_info"), user_id)
            IN  IF member = NoneDict THEN S_there ELSE member.first_name
    IN  IF ~Truthy(paynow_phone) \/ ~Truthy(paynow_name) THEN << >>
        ELSE IF split_mode_of(ud) \in {"even", "manual"}
        THEN [i \in 1..Len(ud.totals) |->
                 [self |-> paynow_generator,
                  amount |-> ud.totals[i][2],
                  reference |-> full_reference(Slice15(restaurant) \o S_split,
                                               user_name(ud.totals[i][1]))]]
        ELSE [i \in 1..Len(ud.people_data) |->
                 [self |-> paynow_generator,
                  amount |-> Lookup(ud.totals, ud.people_data[i].person_id),
                  reference |-> full_reference(Slice15(restaurant) \o S_split,
                                               S_Person \o StrOfInt(ud.people_data[i].person_id))]]

\* the KeyError of send_payment_requests: a key of the session it reads is
\* not there
send_payment_requests_raises(ud) ==
    \/ ~Has(ud, "bill_data")
    \/ ~Has(ud, "totals")
    \/ split_mode_of(ud) = "manual" /\ ~Has(ud, "manual_assignments")
    \/ split_mode_of(ud) = "photo" /\ ~Has(ud, "people_data")

\* the members the bot cannot write to directly: a user who never started
\* the bot has no chat with it, and send_message to the user raises
Unreachable == SUBSET {ChatMembers[i].id : i \in 1..Len(ChatMembers)}

\* the send_photo calls of send_payment_requests: the chat each goes to
\* and which generate_qr_code call made its photo.  In the even and the
\* manual split the group gets a text and no photo when the direct message
\* fails; in the photo mode the photo of a person who is not matched, or
\* whose direct message fails, goes to the group
send_photos(ud, unreachable) ==
    IF split_mode_of(ud) \in {"even", "manual"}
    THEN SelectSeq([i \in 1..Len(ud.totals) |-> [chat_id |-> ud.totals[i][1], qr_code |-> i]],
                   LAMBDA photo : photo.chat_id \notin unreachable)
    ELSE [i \in 1..Len(ud.people_data) |->
             [chat_id |-> IF /\ matched_user(ud, ud.people_data[i].person_id) # 0
                             /\ matched_user(ud, ud.people_data[i].person_id) \notin unreachable
                          THEN matched_user(ud, ud.people_data[i].person_id)
                          ELSE ud.chat_id,
              qr_code |-> i]]

\* the callback data handle_confirmation gets: the buttons of
\* show_confirmation and of handle_corrections
ConfirmationQueries == {"confirm_yes", "confirm_edit", "confirm_cancel", "restart"}

\* handle_confirmation, in CONFIRMING and in CORRECTING; confirm_yes runs
\* send_payment_requests, which ends the conversation: with "All done!"
\* after the requests, with an error message when the recipient is missing
\* or a key of the session is (KeyError)
HandleConfirmation ==
    /\ state \in {"CONFIRMING", "CORRECTING"}
    /\ \E query \in ConfirmationQueries :
        /\ Handled("handle_confirmation", query)
        /\ CASE query = "confirm_yes" ->
                    /\ state' = "END"
                    /\ IF send_payment_requests_raises(user_data)
                          \/ ~Truthy(Get(user_data, "paynow_phone"))
                          \/ ~Truthy(Get(user_data, "paynow_name"))
                       THEN sent' = << >> /\ posted' = NoPosts
                       ELSE \E unreachable \in Unreachable :
                               /\ sent' = send_payment_requests(user_data)
                               /\ posted' = [photos |-> send_photos(user_data, unreachable),
                                             all_done |-> TRUE]
             [] query = "confirm_edit" ->
                    /\ state' = "CORRECTING"
                    /\ UNCHANGED <<sent, posted>>
             [] query = "confirm_cancel" ->
                    /\ state' = "END"
                    /\ UNCHANGED <<sent, posted>>
             [] OTHER -> UNCHANGED <<state, sent, posted>>
    /\ UNCHANGED <<user_data, bill, people, totals, paynow_storage, file>>
    /\ UNCHANGED pairings_file

\* handle_corrections: any text in CORRECTING leads back to CONFIRMING
HandleCorrections ==
    /\ state = "CORRECTING"
    /\ state' = "CONFIRMING"
    /\ UNCHANGED <<user_data, sent, bill, people, totals, paynow_storage, file>>
    /\ Handled("handle_corrections", "text")
    /\ UNCHANGED <<pairings_file, posted>>

\* faulty variant: /cancel at the confirmation sends the payment requests
Cancel_Sends ==
    /\ state # "END"
    /\ state' = "END"
    /\ IF state = "CONFIRMING"
       THEN /\ sent' = send_payment_requests(user_data)
            /\ posted' = [photos |-> send_photos(user_data, {}), all_done |-> TRUE]
       ELSE UNCHANGED <<sent, posted>>
    /\ UNCHANGED <<user_data, bill, people, totals, paynow_storage, file>>
    /\ Handled("cancel", "/cancel")
    /\ UNCHANGED pairings_file

\* /cancel, a fallback of every state
Cancel ==
    /\ state # "END"
    /\ state' = "END"
    /\ UNCHANGED <<user_data, sent, bill, people, totals, paynow_storage, file>>
    /\ Handled("cancel", "/cancel")
    /\ UNCHANGED <<pairings_file, posted>>


(***************************************************************************)
(* C19: the chat layer validates what it hands to the encoder              *)
(***************************************************************************)
\* the value the encoder writes to tag 26/02 for a generate_qr_code call
RecipientIdOf(call) == FormattedField(S_02, mobile_number(call.self)).value

\* C19: every generate_qr_code call of the conversation has a recipient
\* phone that yields a non-empty recipient id of decimal digits only in tag
\* 26/02, a non-empty recipient name, and an amount of zero or more.
C19_ChatLayerValidates ==
    \A i \in 1..Len(sent) :
        /\ RecipientIdOf(sent[i]) # <<>>
        /\ \A k \in 1..Len(RecipientIdOf(sent[i])) : RecipientIdOf(sent[i])[k] \in 48..57
        /\ sent[i].self.recipient_name # <<>>
        /\ sent[i].amount >= 0

(***************************************************************************)
(* C20: the recipient-info store                                           *)
(*                                                                         *)
(* The store on its own: one live instance on user_paynow.json, its three  *)
(* methods called in any order, and a new instance created on the same     *)
(* file at any time (the bot restarted).                                   *)
(***************************************************************************)
\* user ids, and the phones and names stored for them: "+6591234567", "";
\* "John Doe", a name of '"', '\', n-tilde and U+1F600, and ""
UserIds == {111, 222}
StoredPhones == {<<43, 54, 53, 57, 49, 50, 51, 52, 53, 54, 55>>, <<>>}
StoredNames == {S_JohnDoe, <<34, 92, 241, 128512>>, <<>>}

conversationVars == <<bill, people, totals, state, user_data, sent, pairings_file, posted, other_chat>>

InitStorage ==
    /\ config \in Configs
    /\ obj = NoObject
    /\ request = NoRequest
    /\ last = NoCall
    /\ data = <<>>
    /\ crc_ret = [calculate_crc |-> NotCalled, calculate_crc16 |-> NotCalled]
    /\ history = {}
    /\ frame = NoFrame
    /\ bill = NoBill
    /\ people = NoPeople
    /\ totals = NoTotals
    /\ state = "END"
    /\ user_data = EmptyDict
    /\ sent = << >>
    /\ file \in InitialFiles
    /\ paynow_storage = PayNowStorage_init(file)
    /\ pairings_file = NoFile
    /\ posted = NoPosts
    /\ other_chat = "END"

\* PayNowStorage(): a new instance on the same file takes the place of the live one
NewPayNowStorage ==
    /\ paynow_storage' = PayNowStorage_init(file)
    /\ request' = NoRequest
    /\ last' = [NoCall EXCEPT !.op = "PayNowStorage"]
    /\ UNCHANGED <<config, obj, data, crc_ret, history, frame, file>>
    /\ UNCHANGED conversationVars

\* paynow_storage.save_user_paynow(user_id, phone, name)
SaveUserPaynow ==
    \E user_id \in UserIds, phone \in StoredPhones, name \in StoredNames :
        /\ paynow_storage' = save_user_paynow(paynow_storage, user_id, phone, name)
        /\ file' = _save_storage(paynow_storage')
        /\ request' = [user_id |-> user_id, phone |-> phone, name |-> name]
        /\ last' = [NoCall EXCEPT !.op = "save_user_paynow"]
        /\ UNCHANGED <<config, obj, data, crc_ret, history, frame>>
        /\ UNCHANGED conversationVars

\* paynow_storage.get_user_paynow(user_id)
GetUserPaynow ==
    \E user_id \in UserIds :
        /\ request' = [user_id |-> user_id]
        /\ last' = [op |-> "get_user_paynow", status |-> "ok",
                    ret |-> get_user_paynow(paynow_storage, user_id)]
        /\ UNCHANGED <<config, obj, data, crc_ret, history, frame, paynow_storage, file>>
        /\ UNCHANGED conversationVars

\* paynow_storage.delete_user_paynow(user_id): the file is written only
\* when the key was there
DeleteUserPaynow ==
    \E user_id \in UserIds :
        /\ paynow_storage' = delete_user_paynow(paynow_storage, user_id)
        /\ file' = IF StrOfInt(user_id) \in Keys(paynow_storage.data)
                   THEN _save_storage(paynow_storage')
                   ELSE file
        /\ request' = [user_id |-> user_id]
        /\ last' = [NoCall EXCEPT !.op = "delete_user_paynow"]
        /\ UNCHANGED <<config, obj, data, crc_ret, history, frame>>
        /\ UNCHANGED conversationVars

NextStorage == NewPayNowStorage \/ SaveUserPaynow \/ GetUserPaynow \/ DeleteUserPaynow

SpecStorage == InitStorage /\ [][NextStorage]_vars

\* what get_user_paynow gives for v, on the live instance self and on an
\* instance created on the file f
Entries(self, f, v) == <<get_user_paynow(self, v), get_user_paynow(PayNowStorage_init(f), v)>>

PyDict(items) == [type |-> "dict", items |-> items]
PyInt(n) == [type |-> "int", int |-> n]
PyStr(s) == [type |-> "str", str |-> s]

NoValue == [ok |-> FALSE, val |-> <<>>, next |-> 0]

\* no value read yet
Pending == [type |-> "pending"]

\* int(s) for the text of a JSON integer
IntOfNumber(s) == IF s[1] = 45 THEN 0 - IntOf(Tail(s)) ELSE IntOf(s)

RECURSIVE ParseValue(_, _, _, _)
\* json.scanner's _scan_once with json.decoder.JSONObject, told as one loop
\* over the tokens.  open holds the dicts not yet closed, outermost first,
\* each with the items read so far and the key whose value is being read.
\* With v pending, a value starts at tk[k]; otherwise v has just been read
\* and tk[k] follows it.  A key met again keeps its place and takes the
\* later value.
ParseValue(tk, k, open, v) ==
    IF v = Pending
    THEN IF k > Len(tk) THEN NoValue
         ELSE IF tk[k].kind = "str" THEN ParseValue(tk, k + 1, open, PyStr(tk[k].val))
         ELSE IF tk[k].kind = "num"
         THEN ParseValue(tk, k + 1, open, PyInt(IntOfNumber(tk[k].val)))
         ELSE IF ~IsPunct(tk, k, 123) THEN NoValue
         ELSE IF k < Len(tk) /\ IsPunct(tk, k + 1, 125)
         THEN ParseValue(tk, k + 2, open, PyDict(<<>>))
         ELSE IF k + 2 > Len(tk) \/ tk[k + 1].kind # "str" \/ ~IsPunct(tk, k + 2, 58)
         THEN NoValue
         ELSE ParseValue(tk, k + 3, Append(open, [items |-> <<>>, key |-> tk[k + 1].val]),
                         Pending)
    ELSE IF open = <<>> THEN [ok |-> TRUE, val |-> v, next |-> k]
    ELSE IF k > Len(tk) THEN NoValue
    ELSE IF IsPunct(tk, k, 125)
    THEN ParseValue(tk, k + 1, SubSeq(open, 1, Len(open) - 1),
                    PyDict(DictSet(open[Len(open)].items, open[Len(open)].key, v)))
    ELSE IF ~IsPunct(tk, k, 44) \/ k + 2 > Len(tk)
            \/ tk[k + 1].kind # "str" \/ ~IsPunct(tk, k + 2, 58)
    THEN NoValue
    ELSE ParseValue(tk, k + 3,
                    [open EXCEPT ![Len(open)] =
                        [items |-> DictSet(open[Len(open)].items, open[Len(open)].key, v),
                         key |-> tk[k + 1].val]],
                    Pending)

\* JSONDecoder.decode on the tokens tk: the value read from the first token
\* on, which the last token ends
OneValue(tk) ==
    LET value == ParseValue(tk, 1, <<>>, Pending)
    IN  IF value.ok /\ value.next = Len(tk) + 1
        THEN [ok |-> TRUE, val |-> value.val]
        ELSE Bad

\* json.load(f) for the text t of a pairings file: one value and nothing
\* after it, otherwise JSONDecodeError
JsonLoad(t) == OneValue(Tokens(t))

\* the indentation of json.dump(indent=2) at a nesting level
Indent(level) == [k \in 1..(2 * level) |-> 32]

RECURSIVE Flatten(_)
\* ''.join(chunks)
Flatten(chunks) == IF chunks = <<>> THEN <<>> ELSE Head(chunks) \o Flatten(Tail(chunks))

RECURSIVE JsonValue(_, _)
\* json.dump(v, f, indent=2): the text of v, which stands at a nesting level
JsonValue(v, level) ==
    IF v.type = "int" THEN StrOfInt(v.int)
    ELSE IF v.type = "str" THEN JsonString(v.str)
    ELSE IF v.items = <<>> THEN <<123, 125>>
    ELSE <<123, 10>>
         \o Flatten([i \in 1..Len(v.items) |->
                        Indent(level + 1) \o JsonString(v.items[i][1]) \o <<58, 32>>
                        \o JsonValue(v.items[i][2], level + 1)
                        \o (IF i < Len(v.items) THEN <<44, 10>> ELSE <<10>>)])
         \o Indent(level) \o <<125>>

S_telegram_user_id == <<116, 101, 108, 101, 103, 114, 97, 109, 95, 117, 115, 101, 114, 95, 105, 100>>
S_headshot == <<104, 101, 97, 100, 115, 104, 111, 116>>
S_saved_headshots == <<115, 97, 118, 101, 100, 95, 104, 101, 97, 100, 115, 104, 111, 116, 115>>
TEMP_DIR == <<116, 101, 109, 112, 95, 112, 104, 111, 116, 111, 115>>

\* str.lower() and str.replace(old, new) on code points, for ASCII letters
Lower(s) == [i \in 1..Len(s) |-> IF s[i] \in 65..90 THEN s[i] + 32 ELSE s[i]]
Replace(s, old, new) == [i \in 1..Len(s) |-> IF s[i] = old THEN new ELSE s[i]]

\* generate_person_key(person)
generate_person_key(person) == <<112, 101, 114, 115, 111, 110, 95>> \o Replace(Lower(person.position), 32, 95)

\* os.path.join(TEMP_DIR, 'saved_headshots', f"{chat_id}_{safe_description}.jpg")
saved_headshot_path(chat_id, person_description) ==
    TEMP_DIR \o <<47>> \o S_saved_headshots \o <<47>> \o StrOfInt(chat_id) \o <<95>>
    \o Replace(person_description, 32, 95) \o <<46, 106, 112, 103>>

\* load_pairings from "chat_pairings = all_pairings.get(chat_key, {})" on,
\* loaded what json.load gave: old-format ints become dicts, and an
\* exception gives {}
normalized_pairings(loaded, chat_key) ==
    IF ~loaded.ok THEN <<>>
    ELSE IF loaded.val.type # "dict" THEN <<>>
    ELSE IF chat_key \notin Keys(loaded.val.items) THEN <<>>
    ELSE LET chat_pairings == DictGet(loaded.val.items, chat_key)
         IN  IF chat_pairings.type # "dict" THEN <<>>
             ELSE [i \in 1..Len(chat_pairings.items) |->
                      IF chat_pairings.items[i][2].type = "int"
                      THEN <<chat_pairings.items[i][1],
                             PyDict(<<<<S_telegram_user_id, chat_pairings.items[i][2]>>>>)>>
                      ELSE chat_pairings.items[i]]

\* load_pairings(chat_id) on the file f: the dict of the chat with every
\* bare int made a dict; {} when the file is missing or reading it raises
load_pairings(f, chat_id) ==
    IF ~f.exists THEN <<>> ELSE normalized_pairings(JsonLoad(f.text), StrOfInt(chat_id))

\* the pairing_data save_pairing builds; headshot tells whether a headshot
\* path was given and exists, and whether shutil.copy2 went through
pairing_data(chat_id, person_description, telegram_user_id, headshot) ==
    IF headshot = "copied"
    THEN PyDict(<<<<S_telegram_user_id, PyInt(telegram_user_id)>>,
                  <<S_headshot, PyStr(saved_headshot_path(chat_id, person_description))>>>>)
    ELSE PyDict(<<<<S_telegram_user_id, PyInt(telegram_user_id)>>>>)

\* all_pairings as save_pairing reads it, loaded what json.load gave: {}
\* when the file is missing or json.load raised
read_all_pairings(loaded) == IF loaded.ok THEN loaded.val ELSE PyDict(<<>>)

\* faulty variant: the chat's dict is started afresh for every pairing
write_pairing_FreshChat(f, all_pairings, chat_key, person_description, data_) ==
    IF all_pairings.type # "dict" THEN [status |-> "TypeError", file |-> f]
    ELSE [status |-> "ok",
          file |-> [exists |-> TRUE,
                    text |-> JsonValue(PyDict(DictSet(all_pairings.items, chat_key,
                                 PyDict(<<<<person_description, data_>>>>))),
                                       0)]]

\* save_pairing from "if chat_key not in all_pairings" on: the file it
\* leaves, or the TypeError of a JSON that is no dict of dicts, raised
\* before anything is written
write_pairing(f, all_pairings, chat_key, person_description, data_) ==
    IF all_pairings.type # "dict" THEN [status |-> "TypeError", file |-> f]
    ELSE LET chat_pairings == IF chat_key \in Keys(all_pairings.items)
                              THEN DictGet(all_pairings.items, chat_key)
                              ELSE PyDict(<<>>)
         IN  IF chat_pairings.type # "dict" THEN [status |-> "TypeError", file |-> f]
             ELSE [status |-> "ok",
                   file |-> [exists |-> TRUE,
                             text |-> JsonValue(PyDict(DictSet(all_pairings.items, chat_key,
                                          PyDict(DictSet(chat_pairings.items, person_description,
                                                         data_)))),
                                                0)]]

\* faulty variant: the chat key drops the sign of the chat id
save_pairing_UnsignedChat(f, chat_id, person_description, telegram_user_id, headshot) ==
    write_pairing(f, read_all_pairings(IF f.exists THEN JsonLoad(f.text) ELSE Bad),
                  IF chat_id < 0 THEN DecStr(0 - chat_id) ELSE DecStr(chat_id),
                  person_description,
                  pairing_data(chat_id, person_description, telegram_user_id, headshot))

\* save_pairing(chat_id, person_description, telegram_user_id, headshot_path)
\* on the file f
save_pairing(f, chat_id, person_description, telegram_user_id, headshot) ==
    write_pairing(f, read_all_pairings(IF f.exists THEN JsonLoad(f.text) ELSE Bad),
                  StrOfInt(chat_id), person_description,
                  pairing_data(chat_id, person_description, telegram_user_id, headshot))

(***************************************************************************)
(* The pairings store on its own: save_pairing and load_pairings called    *)
(* in any order, on a file that is missing, cut short, or was written by   *)
(* this or by an earlier version of the program.                           *)
(***************************************************************************)
GroupChatId == -1001
PairingChats == {ChatId, GroupChatId}

\* the positions the photo analysis gave the people
Positions == {<<76, 101, 102, 116>>, <<70, 97, 114, 32, 82, 105, 103, 104, 116>>}
PersonKeys == {generate_person_key([position |-> p]) : p \in Positions}

\* the keys of the people photographed in a chat: two in the one, the first
\* of them in the other
S_person_left == <<112, 101, 114, 115, 111, 110, 95, 108, 101, 102, 116>>

PeopleOf(chat_id) == IF chat_id = ChatId THEN PersonKeys ELSE {S_person_left}

\* what becomes of the headshot of a person: the one on the left has one,
\* whose copy may fail, the other has none
HeadshotsOf(person_description) ==
    IF person_description = S_person_left THEN {"copied", "failed"} ELSE {"none"}

\* a file of the current format, and one that still holds bare ints
CurrentPairings ==
    PyDict(<<<<StrOfInt(ChatId),
               PyDict(<<<<S_person_left,
                          pairing_data(ChatId, S_person_left, 111, "copied")>>>>)>>>>)

LegacyPairings ==
    PyDict(<<<<StrOfInt(GroupChatId), PyDict(<<<<S_person_left, PyInt(222)>>>>)>>,
             <<StrOfInt(ChatId), PyDict(<<<<<<112, 101, 114, 115, 111, 110, 95, 102, 97, 114, 95, 114, 105, 103, 104, 116>>, PyInt(111)>>,
                                         <<S_person_left, pairing_data(ChatId, S_person_left, 222, "none")>>>>)>>>>)

InitialPairingFiles ==
    {NoFile,
     [exists |-> TRUE, text |-> SubSeq(JsonValue(CurrentPairings, 0), 1, 40)],
     [exists |-> TRUE, text |-> JsonValue(CurrentPairings, 0)],
     [exists |-> TRUE, text |-> JsonValue(LegacyPairings, 0)]}

InitPairings ==
    /\ config \in Configs
    /\ obj = NoObject
    /\ request = NoRequest
    /\ last = NoCall
    /\ data = <<>>
    /\ crc_ret = [calculate_crc |-> NotCalled, calculate_crc16 |-> NotCalled]
    /\ history = {}
    /\ frame = NoFrame
    /\ bill = NoBill
    /\ people = NoPeople
    /\ totals = NoTotals
    /\ state = "END"
    /\ user_data = EmptyDict
    /\ sent = << >>
    /\ file = NoFile
    /\ paynow_storage = NoStorage
    /\ pairings_file \in InitialPairingFiles
    /\ posted = NoPosts
    /\ other_chat = "END"

\* user_matcher.save_pairing(chat_id, person_key, telegram_user_id, headshot_path)
SavePairing ==
    \E chat_id \in PairingChats, telegram_user_id \in UserIds :
      \E person_description \in PeopleOf(chat_id) :
        \E headshot \in HeadshotsOf(person_description) :
        /\ LET saved == save_pairing(pairings_file, chat_id, person_description,
                                     telegram_user_id, headshot)
           IN  /\ pairings_file' = saved.file
               /\ last' = [op |-> "save_pairing", status |-> saved.status, ret |-> <<>>]
        /\ request' = [chat_id |-> chat_id, person_description |-> person_description,
                       telegram_user_id |-> telegram_user_id, headshot |-> headshot]
        /\ UNCHANGED <<config, obj, data, crc_ret, history, frame, paynow_storage, file>>
        /\ UNCHANGED <<bill, people, totals, state, user_data, sent, posted, other_chat>>

\* user_matcher.load_pairings(chat_id)
LoadPairings ==
    \E chat_id \in PairingChats :
        /\ request' = [chat_id |-> chat_id]
        /\ last' = [op |-> "load_pairings", status |-> "ok",
                    ret |-> load_pairings(pairings_file, chat_id)]
        /\ UNCHANGED <<config, obj, data, crc_ret, history, frame, paynow_storage, file>>
        /\ UNCHANGED <<bill, people, totals, state, user_data, sent, pairings_file, posted, other_chat>>

NextPairings == SavePairing \/ LoadPairings

SpecPairings == InitPairings /\ [][NextPairings]_vars

\* what the file f holds for the chat as json.load gives it, before any
\* int is made a dict; no items when it holds nothing for the chat
StoredForChat(f, chat_id) ==
    LET loaded == IF f.exists THEN JsonLoad(f.text) ELSE Bad
    IN  IF loaded.ok /\ StrOfInt(chat_id) \in Keys(loaded.val.items)
        THEN DictGet(loaded.val.items, StrOfInt(chat_id)).items
        ELSE <<>>

\* C21: once save_pairing(chat, key, userId) has returned, load_pairings(chat)
\* maps key to a dict whose telegram_user_id is userId; what
\* load_pairings(chat) has returned maps every key the file holds with a bare
\* int n to {telegram_user_id: n}, and it is the empty dict when the file is
\* missing, is no JSON, or holds nothing for the chat.
C21_PairingRoundTrip ==
    /\ last.op = "save_pairing" =>
            LET pairings == load_pairings(pairings_file, request.chat_id)
            IN  /\ request.person_description \in Keys(pairings)
                /\ DictGet(DictGet(pairings, request.person_description).items,
                           S_telegram_user_id) = PyInt(request.telegram_user_id)
    /\ last.op = "load_pairings" =>
            LET stored == StoredForChat(pairings_file, request.chat_id)
            IN  /\ Keys(last.ret) = Keys(stored)
                /\ \A i \in 1..Len(stored) :
                       stored[i][2].type = "int" =>
                           DictGet(last.ret, stored[i][1])
                               = PyDict(<<<<S_telegram_user_id, stored[i][2]>>>>)
                /\ (~pairings_file.exists \/ ~JsonLoad(pairings_file.text).ok)
                       => last.ret = <<>>

\* a pairing with a headshot was saved into a file that still holds a bare
\* int for the other person of the chat
C21_Witness ==
    /\ last.op = "save_pairing"
    /\ request.chat_id = ChatId
    /\ request.headshot = "copied"
    /\ Len(load_pairings(pairings_file, ChatId)) = 2
    /\ \E i \in 1..2 : StoredForChat(pairings_file, ChatId)[i][2].type = "int"

(***************************************************************************)
(* C22: payment requests only after the confirmation                       *)
(***************************************************************************)
\* C22: a step that makes or posts a QR code is the step of "confirm_yes" in
\* CONFIRMING or CORRECTING; the step of "confirm_cancel" and the step of
\* /cancel end the conversation and make and post nothing; outside a
\* conversation nothing happens but /makansplit.
C22_QrOnlyAfterConfirm ==
    [][ /\ ((sent' # sent /\ sent' # << >>) \/ (posted' # posted /\ posted' # NoPosts)) =>
            /\ state \in {"CONFIRMING", "CORRECTING"}
            /\ last'.op = "handle_confirmation"
            /\ request'.data = "confirm_yes"
        /\ (last'.op = "cancel"
            \/ (last'.op = "handle_confirmation" /\ request'.data = "confirm_cancel")) =>
            /\ state' = "END"
            /\ sent' = sent
            /\ posted' = posted
        /\ state = "END" => last'.op = "makansplit"
      ]_vars

\* the requests of a conversation went out on "confirm_yes": two QR codes,
\* both posted, "All done!"
C22_Witness ==
    /\ state = "END"
    /\ last.op = "handle_confirmation"
    /\ request.data = "confirm_yes"
    /\ Len(sent) = 2
    /\ Len(posted.photos) = 2
    /\ posted.all_done

(***************************************************************************)
(* C23: "All done!" means every QR code was delivered                      *)
(***************************************************************************)
\* C23: once send_payment_requests has posted "All done!", every QR code it
\* made for a person with a share was posted to that person's direct chat
\* or to the group chat.
C23_AllDoneAllDelivered ==
    posted.all_done =>
        \A i \in 1..Len(sent) :
            \E k \in 1..Len(posted.photos) :
                /\ posted.photos[k].qr_code = i
                /\ posted.photos[k].chat_id \in {user_data.totals[i][1], user_data.chat_id}

(***************************************************************************)
(* C24: /makansplit starts afresh                                          *)
(***************************************************************************)
\* C24: /makansplit is handled in every state, and the step that handles it
\* leaves the conversation in WAITING_BILL_PHOTO with a session that holds
\* chat_id and nothing else.
C24_MakansplitStartsAfresh ==
    [][ /\ ENABLED Makansplit
        /\ last'.op = "makansplit" =>
            /\ state' = "WAITING_BILL_PHOTO"
            /\ DOMAIN user_data' = {"chat_id"}
            /\ user_data'.chat_id = ChatId
      ]_vars

\* /makansplit was sent when a bill had been analysed for the session
C24_Witness ==
    /\ last.op = "makansplit"
    /\ bill # NoBill
    /\ state = "WAITING_BILL_PHOTO"
    /\ user_data = [chat_id |-> ChatId]

(***************************************************************************)
(* C27: "Done" with nobody tagged                                          *)
(***************************************************************************)
\* C27: "Done" pressed while no user is tagged leaves the conversation in
\* TAGGING_USERS and the session as it was, without totals; the step of
\* handle_user_tagging that sets totals has n >= 1 tagged users and gives
\* each of the n one entry.
C27_DoneNeedsTaggedUser ==
    [][ (last'.op = "handle_user_tagging" /\ request'.cmd = "tagging_done") =>
            IF Len(user_data.tagged_users) = 0
            THEN /\ state' = "TAGGING_USERS"
                 /\ user_data' = user_data
                 /\ ~Has(user_data', "totals")
            ELSE /\ state' = "CONFIRMING"
                 /\ Len(user_data'.totals) = Len(user_data.tagged_users)
                 /\ Len(user_data.tagged_users) >= 1
      ]_vars

\* "Done" was pressed with nobody tagged
C27_Witness ==
    /\ last.op = "handle_user_tagging"
    /\ request.cmd = "tagging_done"
    /\ state = "TAGGING_USERS"
    /\ user_data.tagged_users = << >>

(***************************************************************************)
(* C30: the buttons of handle_corrections                                  *)
(***************************************************************************)
\* C30: once handle_corrections has offered "Proceed anyway" and "Restart",
\* the press of "Restart" clears the session and leads to
\* WAITING_BILL_PHOTO, and the press of "Proceed anyway" makes the payment
\* requests of the session.
C30_RestartRestarts ==
    [][ (last.op = "handle_corrections" /\ last'.op = "handle_confirmation") =>
            /\ request'.data = "restart" =>
                /\ state' = "WAITING_BILL_PHOTO"
                /\ ~Has(user_data', "bill_data")
                /\ ~Has(user_data', "totals")
            /\ request'.data = "confirm_yes" =>
                /\ state' = "END"
                /\ sent' = send_payment_requests(user_data)
      ]_vars

(***************************************************************************)
(* C28: the manual assignment comes to its end                             *)
(***************************************************************************)
\* every item of the bill has the key total_price
CarryTotalPrice(bill_data) ==
    \A i \in 1..Len(bill_data.items) : "total_price" \in DOMAIN bill_data.items[i]

\* C28: for a bill of n items that carry a total price, the manual split
\* starts with current_item_index 0; assign, unassign, select_all and
\* deselect_all leave the index as it is, skip_item and next_item add 1;
\* the index never exceeds n, and the step that brings it to n (the mode
\* choice when n = 0) leaves the conversation in CONFIRMING.
C28_ManualAssignmentTerminates ==
    [][ (Has(user_data', "current_item_index") /\ CarryTotalPrice(user_data'.bill_data)) =>
            /\ (last'.op = "handle_split_mode_choice" /\ request'.data = "mode_manual") =>
                    user_data'.current_item_index = 0
            /\ last'.op = "handle_manual_assignment" =>
                    user_data'.current_item_index
                        = IF request'.cmd \in {"skip_item", "next_item"}
                          THEN user_data.current_item_index + 1
                          ELSE user_data.current_item_index
            /\ user_data'.current_item_index <= Len(user_data'.bill_data.items)
            /\ (/\ last'.op \in {"handle_split_mode_choice", "handle_manual_assignment"}
                /\ user_data'.current_item_index = Len(user_data'.bill_data.items)) =>
                    state' = "CONFIRMING"
      ]_vars

(***************************************************************************)
(* C26: the arithmetic of the manual split                                 *)
(***************************************************************************)
RECURSIVE SumOver(_, _)
\* the sum of f over the set S
SumOver(f, S) ==
    IF S = {} THEN 0
    ELSE LET x == CHOOSE y \in S : TRUE
         IN  f[x] + SumOver(f, S \ {x})

\* the item indexes whose assignment names the user
AssignedTo(assignments, user_id) ==
    {k \in Keys(assignments) : InList(Lookup(assignments, k), user_id)}

\* twice what the items assigned to the user cost the user, in cents:
\* itemTotal / k for an item of k assignees
Owed2(ud, user_id) ==
    SumOver([k \in AssignedTo(ud.manual_assignments, user_id) |->
                (2 * ud.bill_data.items[k + 1].total_price)
                    \div Len(Lookup(ud.manual_assignments, k))],
            AssignedTo(ud.manual_assignments, user_id))

\* C26: the totals that show_manual_split_summary writes give each user
\* who is assigned to an item the sum of itemTotal/k over the items assigned
\* to the user, k the number of the item's assignees, rounded to the cent;
\* an item without assignee adds to nobody's total, a user assigned to no
\* item has no entry, and the payment requests go to the users of totals.
C26_ManualSplitArithmetic ==
    (Has(user_data, "totals") /\ Get(user_data, "split_mode") = "manual") =>
        /\ Len(user_data.totals) = Cardinality(Keys(user_data.totals))
        /\ \A m \in 1..Len(ChatMembers) :
            IF AssignedTo(user_data.manual_assignments, ChatMembers[m].id) = {}
            THEN ChatMembers[m].id \notin Keys(user_data.totals)
            ELSE /\ ChatMembers[m].id \in Keys(user_data.totals)
                 /\ Abs(2 * Lookup(user_data.totals, ChatMembers[m].id)
                        - Owed2(user_data, ChatMembers[m].id)) <= 1
        /\ \A u \in Keys(user_data.totals) : \E m \in 1..Len(ChatMembers) : ChatMembers[m].id = u
        /\ posted.all_done =>
            /\ Len(sent) = Len(user_data.totals)
            /\ \A i \in 1..Len(sent) : sent[i].amount = user_data.totals[i][2]
            /\ \A k \in 1..Len(posted.photos) : posted.photos[k].chat_id \in Keys(user_data.totals)

\* two items, the first shared by both members, the second one member's,
\* and the requests sent
C26_Witness ==
    /\ Has(user_data, "totals") /\ Get(user_data, "split_mode") = "manual"
    /\ Len(user_data.bill_data.items) = 2
    /\ Len(Lookup(user_data.manual_assignments, 0)) = 2
    /\ Len(Lookup(user_data.manual_assignments, 1)) = 1
    /\ Len(user_data.totals) = 2
    /\ user_data.totals[1][2] # user_data.totals[2][2]
    /\ posted.all_done /\ Len(posted.photos) = 2

(***************************************************************************)
(* Photo mode: the people of the group photo are matched to chat members   *)
(*                                                                         *)
(* people_data is carried as its list 'people'; the people of a photo have *)
(* distinct person ids.  matches and totals are dicts {person_id: ...},    *)
(* carried as sequences of pairs; a matched user id of None is carried as  *)
(* 0, which is as falsy.                                                   *)
(***************************************************************************)
\* what the vision model answered for the group photo of a bill of n items:
\* one person on the left, or a second one on the far right as well
GroupPhotos(n) ==
    LET left == [person_id |-> 1, position |-> <<76, 101, 102, 116>>,
                 items |-> IF n >= 1 THEN <<1>> ELSE << >>]
        far_right == [person_id |-> 2, position |-> <<70, 97, 114, 32, 82, 105, 103, 104, 116>>,
                      items |-> IF n >= 1 THEN <<n>> ELSE << >>]
    IN  {<<left>>, <<left, far_right>>}

\* the person ids extract_person_headshots gave a headshot for
Headshots == {1}

\* member['username'] of a chat member: Ann has one, Bob has none
Username(member) == IF member.id = 111 THEN <<97, 110, 110>> ELSE None

\* the texts typed in MATCHING_USERS: "@Ann", "bob", "+6591234567"
ManualTexts ==
    {<<64, 65, 110, 110>>, <<98, 111, 98>>, <<43, 54, 53, 57, 49, 50, 51, 52, 53, 54, 55>>}

\* user_pairings.json when the bot starts: absent, or written by an earlier
\* run that matched the person on the left to Ann
ChatPairingFiles == {NoFile, [exists |-> TRUE, text |-> JsonValue(CurrentPairings, 0)]}

\* del d[k]
Del(d, k) == [x \in DOMAIN d \ {k} |-> d[x]]

\* saved_pairings[person_key].get('telegram_user_id')
saved_user_id(saved_pairings, person_key) ==
    LET pairing == Lookup(saved_pairings, person_key).items
    IN  IF S_telegram_user_id \in Keys(pairing) THEN Lookup(pairing, S_telegram_user_id).int ELSE 0

\* show_confirmation: the totals of calculate_person_totals, or its exception
show_confirmation(ud) ==
    {IF t.status # "ok" THEN Raises(ud)
     ELSE Returns("CONFIRMING",
                  Put(Put(ud, "totals",
                          [i \in 1..Len(ud.people_data) |->
                              <<ud.people_data[i].person_id, t.totals[ud.people_data[i].person_id]>>]),
                      "user_info", UserInfo(GetList(ud, "chat_members")))) :
        t \in calculate_person_totals(ud.people_data, ud.bill_data.items)}

\* start_person_matching: the confirmation after the last unmatched person,
\* else the keyboard for the person at current_matching_index
start_person_matching(ud) ==
    IF ud.current_matching_index >= Len(ud.unmatched_people)
    THEN show_confirmation(ud)
    ELSE {Returns("MATCHING_USERS", ud)}

\* receive_group_photo from "people_data = ..." on, saved_pairings what
\* load_pairings returned: an exception of the confirmation is caught and
\* the photo is asked for again
receive_group_photo(ud, people_, saved_pairings) ==
    LET auto == SelectSeq(people_, LAMBDA person : generate_person_key(person) \in Keys(saved_pairings))
        started ==
            Put(Put(Put(Put(Put(Put(ud, "people_data", people_),
                                "headshots", Headshots),
                            "chat_members", ChatMembers),
                        "matches", [i \in 1..Len(auto) |->
                                       <<auto[i].person_id,
                                         saved_user_id(saved_pairings, generate_person_key(auto[i]))>>]),
                    "unmatched_people",
                    SelectSeq(people_, LAMBDA person :
                                  generate_person_key(person) \notin Keys(saved_pairings))),
                "current_matching_index", 0)
    IN  {IF outcome.raised THEN Returns("WAITING_GROUP_PHOTO", outcome.user_data) ELSE outcome :
            outcome \in start_person_matching(started)}

\* what a button of a matching keyboard sends: match_<person>_<user>,
\* manual_<person>, skip_<person>; the keyboards of earlier photos of the
\* chat stay in the chat, so <person> is any person of a photo
PersonQueries ==
    {[cmd |-> "match", person_id |-> p, telegram_user_id |-> u] : p \in {1, 2}, u \in UserIds}
    \cup {[cmd |-> c, person_id |-> p, telegram_user_id |-> 0] : c \in {"manual", "skip"}, p \in {1, 2}}

\* the outcome of a handler that also writes user_pairings.json
WithFile(outcome, f) ==
    [raised |-> outcome.raised, state |-> outcome.state, user_data |-> outcome.user_data, file |-> f]

\* "Move to next person": the exception of save_pairing leaves the match in
\* the session; otherwise the index moves on and the next prompt follows
next_person(matched, saved, f) ==
    IF saved.status # "ok" THEN {WithFile(Raises(matched), f)}
    ELSE {WithFile(outcome, saved.file) :
             outcome \in start_person_matching(
                             Put(matched, "current_matching_index",
                                 matched.current_matching_index + 1))}

\* "Save the match" to "Move to next person" of handle_person_match and of
\* handle_manual_input (awaiting_manual_input already deleted, which no
\* step between reads): matches under the person id of the update,
\* save_pairing under the key of the person prompted, the index, the next
\* prompt; copied tells whether the copy of the headshot went through
save_the_match(ud, person_id, telegram_user_id, f, copied) ==
    next_person(Put(ud, "matches", DictSet(ud.matches, person_id, telegram_user_id)),
                save_pairing(f, ChatId,
                             generate_person_key(ud.unmatched_people[ud.current_matching_index + 1]),
                             telegram_user_id,
                             IF person_id \notin ud.headshots THEN "none"
                             ELSE IF copied THEN "copied" ELSE "failed"),
                f)

\* handle_person_match
handle_person_match(ud, query, f, copied) ==
    CASE query.cmd = "match" ->
            IF ud.current_matching_index >= Len(ud.unmatched_people)
            THEN {WithFile(Raises(ud), f)}
            ELSE save_the_match(ud, query.person_id, query.telegram_user_id, f, copied)
      [] query.cmd = "manual" ->
            {WithFile(Returns("MATCHING_USERS", Put(ud, "awaiting_manual_input", query.person_id)), f)}
      [] query.cmd = "skip" ->
            {WithFile(outcome, f) :
                outcome \in start_person_matching(
                                Put(ud, "current_matching_index", ud.current_matching_index + 1))}

\* handle_manual_input: the member whose username is the text, without "@"
\* and whatever the case
handle_manual_input(ud, text, f, copied) ==
    LET user_input == IF Len(Strip(text)) >= 1 /\ Strip(text)[1] = 64
                      THEN SubSeq(Strip(text), 2, Len(Strip(text))) ELSE Strip(text)
        found == {m \in 1..Len(ud.chat_members) :
                     /\ Truthy(Username(ud.chat_members[m]))
                     /\ Lower(Username(ud.chat_members[m])) = Lower(user_input)}
    IN  IF ~Has(ud, "awaiting_manual_input") THEN {WithFile(Returns("MATCHING_USERS", ud), f)}
        ELSE IF ud.current_matching_index >= Len(ud.unmatched_people)
        THEN {WithFile(Raises(ud), f)}
        ELSE IF found = {}
        THEN {WithFile(outcome, f) :
                 outcome \in start_person_matching(
                                 Del(Put(ud, "current_matching_index", ud.current_matching_index + 1),
                                     "awaiting_manual_input"))}
        ELSE save_the_match(Del(ud, "awaiting_manual_input"), ud.awaiting_manual_input,
                            ud.chat_members[CHOOSE m \in found : \A k \in found : m <= k].id,
                            f, copied)

\* receive_group_photo: analyze_group_photo returns the people, or raises
ReceiveGroupPhoto ==
    /\ state = "WAITING_GROUP_PHOTO"
    /\ \/ \E people_data \in GroupPhotos(Len(user_data.bill_data.items)) :
            \E outcome \in receive_group_photo(user_data, people_data,
                                               load_pairings(pairings_file, ChatId)) :
                /\ user_data' = outcome.user_data
                /\ state' = outcome.state
       \/ UNCHANGED <<user_data, state>>
    /\ UNCHANGED <<bill, people, totals, sent, paynow_storage, file>>
    /\ Handled("receive_group_photo", "photo")
    /\ UNCHANGED <<pairings_file, posted>>

\* handle_person_match, the handler of callbacks in MATCHING_USERS
HandlePersonMatch ==
    /\ state = "MATCHING_USERS"
    /\ \E query \in PersonQueries, copied \in BOOLEAN :
        /\ query.cmd = "skip" => user_data.current_matching_index < MaxIndex
        /\ (copied = FALSE) => (query.cmd = "match" /\ query.person_id \in Headshots)
        /\ HandledUpdate("handle_person_match", query)
        /\ \E outcome \in handle_person_match(user_data, query, pairings_file, copied) :
            /\ user_data' = outcome.user_data
            /\ state' = IF outcome.raised THEN state ELSE outcome.state
            /\ pairings_file' = outcome.file
    /\ UNCHANGED <<bill, people, totals, sent, paynow_storage, file, posted>>

\* handle_manual_input, the handler of texts in MATCHING_USERS
HandleManualInput ==
    /\ state = "MATCHING_USERS"
    /\ \E text \in ManualTexts, copied \in BOOLEAN :
        /\ user_data.current_matching_index < MaxIndex
        /\ (copied = FALSE) => (Has(user_data, "awaiting_manual_input")
                                /\ user_data.awaiting_manual_input \in Headshots)
        /\ HandledUpdate("handle_manual_input", [text |-> text])
        /\ \E outcome \in handle_manual_input(user_data, text, pairings_file, copied) :
            /\ user_data' = outcome.user_data
            /\ state' = IF outcome.raised THEN state ELSE outcome.state
            /\ pairings_file' = outcome.file
    /\ UNCHANGED <<bill, people, totals, sent, paynow_storage, file, posted>>

(***************************************************************************)
(* The conversation of one user in one chat with the even and the manual   *)
(* split: every handler of main() but those of the group photo              *)
(***************************************************************************)
InitChat ==
    /\ config \in Configs
    /\ obj = NoObject
    /\ request = NoRequest
    /\ last = NoCall
    /\ data = <<>>
    /\ crc_ret = [calculate_crc |-> NotCalled, calculate_crc16 |-> NotCalled]
    /\ history = {}
    /\ frame = NoFrame
    /\ bill = NoBill
    /\ people = NoPeople
    /\ totals = NoTotals
    /\ state = "END"
    /\ user_data = EmptyDict
    /\ sent = << >>
    /\ file \in InitialFiles
    /\ paynow_storage = PayNowStorage_init(file)
    /\ pairings_file = NoFile
    /\ posted = NoPosts
    /\ other_chat = "END"

NextChat ==
    \/ Makansplit
    \/ ReceiveBillPhoto
    \/ HandlePaynowConfirmation
    \/ CollectRecipientInfo
    \/ HandleSplitModeChoice
    \/ HandleUserTagging
    \/ HandleManualAssignment
    \/ HandleConfirmation
    \/ HandleCorrections
    \/ Cancel

SpecChat == InitChat /\ [][NextChat]_vars

(***************************************************************************)
(* The conversation in photo mode: the user has a recipient in the store   *)
(* and confirms it, and user_pairings.json is kept from bill to bill       *)
(***************************************************************************)
InitPhoto ==
    /\ config \in Configs
    /\ obj = NoObject
    /\ request = NoRequest
    /\ last = NoCall
    /\ data = <<>>
    /\ crc_ret = [calculate_crc |-> NotCalled, calculate_crc16 |-> NotCalled]
    /\ history = {}
    /\ frame = NoFrame
    /\ bill = NoBill
    /\ people = NoPeople
    /\ totals = NoTotals
    /\ state = "END"
    /\ user_data = EmptyDict
    /\ sent = << >>
    /\ file = [exists |-> TRUE, text |-> json_dump(SavedEarlier)]
    /\ paynow_storage = PayNowStorage_init(file)
    /\ pairings_file \in ChatPairingFiles
    /\ posted = NoPosts
    /\ other_chat = "END"

NextPhoto ==
    \/ Makansplit
    \/ ReceiveBillPhoto
    \/ HandlePaynowConfirmation
    \/ HandleSplitModeChoice
    \/ ReceiveGroupPhoto
    \/ HandlePersonMatch
    \/ HandleManualInput
    \/ HandleConfirmation
    \/ Cancel

SpecPhoto == InitPhoto /\ [][NextPhoto]_vars

(***************************************************************************)
(* Two chats: the user has a conversation in the chat and one in a group.  *)
(* The ConversationHandler keeps a state per (chat, user), context.user_data *)
(* is one dict per user, whatever the chat of the update.                  *)
(***************************************************************************)
\* an update of the second chat went to a handler
HandledOther(handler, data_) ==
    /\ request' = [data |-> data_, chat_id |-> GroupChatId]
    /\ last' = [op |-> handler, status |-> "ok", ret |-> <<>>]
    /\ UNCHANGED <<config, obj, data, crc_ret, history, frame>>
    /\ UNCHANGED <<state, people, totals, sent, paynow_storage, file, pairings_file, posted>>

\* /makansplit in the second chat
MakansplitOther ==
    /\ user_data' = [chat_id |-> GroupChatId]
    /\ other_chat' = "WAITING_BILL_PHOTO"
    /\ UNCHANGED bill
    /\ HandledOther("makansplit", "/makansplit")

\* receive_bill_photo in the second chat
ReceiveBillPhotoOther ==
    /\ other_chat = "WAITING_BILL_PHOTO"
    /\ \/ \E d \in BillPhotos :
            /\ bill' \in analyze_bill(d)
            /\ user_data' = Put(user_data, "bill_data", bill')
            /\ other_chat' = "COLLECTING_RECIPIENT_INFO"
       \/ /\ bill' = [status |-> "error"]
          /\ UNCHANGED <<user_data, other_chat>>
    /\ HandledOther("receive_bill_photo", "photo")

\* /cancel in the second chat
CancelOther ==
    /\ other_chat # "END"
    /\ other_chat' = "END"
    /\ UNCHANGED <<user_data, bill>>
    /\ HandledOther("cancel", "/cancel")

InitTwoChats == InitChat /\ file.exists /\ paynow_storage.data # << >>

NextTwoChats ==
    \/ Makansplit
    \/ ReceiveBillPhoto
    \/ HandlePaynowConfirmation
    \/ HandleSplitModeChoice
    \/ HandleUserTagging
    \/ HandleConfirmation
    \/ Cancel
    \/ MakansplitOther
    \/ ReceiveBillPhotoOther
    \/ CancelOther

SpecTwoChats == InitTwoChats /\ [][NextTwoChats]_vars

(***************************************************************************)
(* C25: the conversations of one user in two chats                         *)
(***************************************************************************)
\* what the conversation of the chat goes by: the bill, the recipient, the
\* totals and the chat the requests are announced in
SessionOfChat(ud) ==
    [k \in DOMAIN ud \cap {"bill_data", "paynow_phone", "paynow_name", "totals", "chat_id"} |-> ud[k]]

\* C25: while the user has a conversation in the chat, no update of the
\* second chat changes the bill, the recipient, the totals or the target
\* chat of the session, and the requests confirmed in the chat are the ones
\* computed from its session and are announced in it.
C25_SessionIsolation ==
    [][ /\ (state # "END" /\ "chat_id" \in DOMAIN request' /\ request'.chat_id = GroupChatId) =>
            SessionOfChat(user_data') = SessionOfChat(user_data)
        /\ (/\ state \in {"CONFIRMING", "CORRECTING"}
            /\ last'.op = "handle_confirmation"
            /\ "chat_id" \notin DOMAIN request'
            /\ request'.data = "confirm_yes") =>
                /\ posted'.all_done
                /\ user_data.chat_id = ChatId
      ]_vars

(***************************************************************************)
(* C29: the matching of the photo mode                                     *)
(***************************************************************************)
\* the person the conversation is asking about
Prompted(ud) == ud.unmatched_people[ud.current_matching_index + 1]

\* the person ids whose entry of matches differs between two sessions
Rematched(before, after) ==
    {id \in Keys(after.matches) :
        id \notin Keys(before.matches) \/ Lookup(before.matches, id) # Lookup(after.matches, id)}

\* the update answers the prompt: a match or a skip button, or a text
\* after "Enter username/phone"
AnswersPrompt ==
    \/ last'.op = "handle_person_match" /\ request'.cmd \in {"match", "skip"}
    \/ last'.op = "handle_manual_input" /\ Has(user_data, "awaiting_manual_input")

\* C29: the group photo matches the people whose key is in the saved
\* pairings of the chat and leaves the others, in the order of the photo, to
\* be asked about from index 0 on; a match, a skip and a typed name each add
\* 1 to current_matching_index, and the step that brings it to the number
\* of unmatched people leads to CONFIRMING, every other one to the next
\* prompt; an entry of matches is only written by a match button or by a
\* typed username of a chat member, and only for the person being asked
\* about.
C29_PhotoMatching ==
    [][ /\ (last'.op = "receive_group_photo" /\ state' # "WAITING_GROUP_PHOTO") =>
            LET saved_pairings == load_pairings(pairings_file, user_data.chat_id)
                people_data == user_data'.people_data
            IN  /\ \A i \in 1..Len(people_data) :
                       generate_person_key(people_data[i]) \in Keys(saved_pairings)
                           <=> people_data[i].person_id \in Keys(user_data'.matches)
                /\ user_data'.unmatched_people
                       = SelectSeq(people_data,
                                   LAMBDA person : person.person_id \notin Keys(user_data'.matches))
                /\ user_data'.current_matching_index = 0
                /\ state' = IF user_data'.unmatched_people = << >>
                            THEN "CONFIRMING" ELSE "MATCHING_USERS"
        /\ last'.op \in {"handle_person_match", "handle_manual_input"} =>
            /\ user_data'.unmatched_people = user_data.unmatched_people
            /\ user_data'.current_matching_index
                   = user_data.current_matching_index + (IF AnswersPrompt THEN 1 ELSE 0)
            /\ user_data'.current_matching_index <= Len(user_data.unmatched_people)
            /\ state' = IF user_data'.current_matching_index = Len(user_data.unmatched_people)
                        THEN "CONFIRMING" ELSE "MATCHING_USERS"
            /\ Rematched(user_data, user_data') \subseteq {Prompted(user_data).person_id}
            /\ Rematched(user_data, user_data') # {} =>
                   \/ last'.op = "handle_person_match" /\ request'.cmd = "match"
                   \/ /\ last'.op = "handle_manual_input"
                      /\ \E m \in 1..Len(ChatMembers) :
                             Lookup(user_data'.matches, Prompted(user_data).person_id) = ChatMembers[m].id
      ]_vars

(***************************************************************************)
(* C31: the even split and the bill's total                                *)
(***************************************************************************)
\* "Looks good!" has just sent the requests of an even split
EvenSplitSent ==
    /\ last.op = "handle_confirmation"
    /\ request.data = "confirm_yes"
    /\ posted.all_done
    /\ Get(user_data, "split_mode") = "even"

\* the amounts of the generate_qr_code calls, in cents, added up
RequestedInAll == SumOver([i \in 1..Len(sent) |-> sent[i].amount], 1..Len(sent))

\* C31 as stated: with n >= 1 tagged users every tagged user is asked for
\* the same amount, and the n amounts, in cents, sum exactly to the bill's
\* total.
C31_EvenSplitConserves ==
    EvenSplitSent =>
        /\ Len(sent) = Len(user_data.tagged_users)
        /\ Len(sent) >= 1
        /\ \A i \in 1..Len(sent) :
               /\ sent[i].amount = sent[1].amount
               /\ sent[i].amount = Lookup(user_data.totals, user_data.tagged_users[i])
        /\ RequestedInAll = user_data.bill_data.total

\* C31 as amended: with n >= 1 tagged users every tagged user is asked for
\* the same amount, the bill's total divided by n and rounded to the cent,
\* so that the n amounts sum to the bill's total give or take half a cent
\* for each user, and exactly when n divides the total in cents.
C31_EvenSplitWithinRounding ==
    EvenSplitSent =>
        /\ Len(sent) = Len(user_data.tagged_users)
        /\ Len(sent) >= 1
        /\ \A i \in 1..Len(sent) :
               /\ sent[i].amount = sent[1].amount
               /\ sent[i].amount = Lookup(user_data.totals, user_data.tagged_users[i])
        /\ 2 * Abs(RequestedInAll - user_data.bill_data.total) <= Len(sent)
        /\ user_data.bill_data.total % Len(sent) = 0 =>
               RequestedInAll = user_data.bill_data.total

\* two users shared the bill of 13.63 and the requests came to a cent more
\* or less than the bill
C31_Witness ==
    /\ EvenSplitSent
    /\ Len(sent) = 2
    /\ user_data.bill_data.total = 1363
    /\ RequestedInAll # user_data.bill_data.total

(***************************************************************************)
(* C32: every item of an analyzed bill carries its total                   *)
(***************************************************************************)
\* every manual assignment names an item of the bill
AssignmentsInBill(ud) ==
    \A i \in 1..Len(ud.manual_assignments) :
        ud.manual_assignments[i][1] < Len(ud.bill_data.items)

\* C32: every item of the bill analyze_bill returned, whatever its subtotal
\* and its items, carries tax, service_charge and total_price, and the
\* manual split is never left in MANUAL_ASSIGNMENT past the last item of
\* the bill by a summary that failed on an item without total_price.
C32_EveryItemPriced ==
    Has(user_data, "bill_data") =>
        /\ \A i \in 1..Len(user_data.bill_data.items) :
               {"tax", "service_charge", "total_price"} \subseteq DOMAIN user_data.bill_data.items[i]
        /\ (/\ state = "MANUAL_ASSIGNMENT"
            /\ Has(user_data, "manual_assignments")
            /\ AssignmentsInBill(user_data)) =>
                user_data.current_item_index < Len(user_data.bill_data.items)

(***************************************************************************)
(* C33: save_pairing leaves the other pairings of the file alone           *)
(***************************************************************************)
\* what json.load gives for the file f, the chats and their pairings; no
\* chats when the file is missing or is no JSON
StoredInFile(f) == read_all_pairings(IF f.exists THEN JsonLoad(f.text) ELSE Bad).items

\* C33: save_pairing(chat, key, userId) changes only the entry for (chat,
\* key): whatever the file was before the call, the pairings it held for
\* every other chat, and for every other person key of the same chat, are
\* held by the file after the call, unchanged.
C33_SavePairingFrame ==
    [][ last'.op = "save_pairing" =>
            \A before \in {StoredInFile(pairings_file)}, after \in {StoredInFile(pairings_file')},
               chat_key \in {StrOfInt(request'.chat_id)} :
                /\ \A c \in Keys(before) \ {chat_key} :
                       c \in Keys(after) /\ DictGet(after, c) = DictGet(before, c)
                /\ chat_key \in Keys(before) =>
                       \A k \in Keys(DictGet(before, chat_key).items) \ {request'.person_description} :
                           /\ k \in Keys(DictGet(after, chat_key).items)
                           /\ DictGet(DictGet(after, chat_key).items, k)
                                  = DictGet(DictGet(before, chat_key).items, k)
      ]_vars

\* the person on the left was paired in the chat whose file held a bare int
\* for the person on the far right and a pairing of the group: both are
\* still there, the int still bare
C33_Witness ==
    /\ last.op = "save_pairing"
    /\ request.chat_id = ChatId
    /\ request.person_description = S_person_left
    /\ request.telegram_user_id = 111
    /\ DictGet(StoredInFile(pairings_file), StrOfInt(GroupChatId))
           = PyDict(<<<<S_person_left, PyInt(222)>>>>)
    /\ Len(StoredForChat(pairings_file, ChatId)) = 2
    /\ \E i \in 1..2 : StoredForChat(pairings_file, ChatId)[i] = <<generate_person_key([position |-> <<70, 97, 114, 32, 82, 105, 103, 104, 116>>]), PyInt(111)>>

(***************************************************************************)
(* C34: the lists of selected users                                        *)
(***************************************************************************)
\* the ids of context.user_data['chat_members'], whom the keyboards offer
MemberIds(ud) == {GetList(ud, "chat_members")[m].id : m \in 1..Len(GetList(ud, "chat_members"))}

\* a list of user ids that holds no id twice and members of the chat only
SelectionOf(user_ids, ud) ==
    /\ \A i, j \in 1..Len(user_ids) : user_ids[i] = user_ids[j] => i = j
    /\ \A i \in 1..Len(user_ids) : user_ids[i] \in MemberIds(ud)

====
